---- MODULE Spec2Model ----
(***************************************************************************)
(* Model of the tool-calling agent loop of src/agent_orchestrator.py:      *)
(* AgentOrchestrator.run, the tenacity retry decorator that wraps it, the  *)
(* TOOLS registry and the tool functions it dispatches to; and of the      *)
(* pipeline components of src/orchestrator.py: the tool functions, the     *)
(* deduplication checker, the idea composer, the environment check, the    *)
(* reasoning step and the roadmap crawler. Each component has its own      *)
(* specification; the variables of the other components stay as Init set   *)
(* them.                                                                   *)
(***************************************************************************)
EXTENDS Integers, Sequences, FiniteSets, TLC

VARIABLES
    pc,          \* "idle" | "loop" | "raised" | "done": position of run() and its retry wrapper
    goal,        \* the goal argument of run()
    attempt,     \* attempt number of the retry wrapper (1..MaxAttempts), 0 before run() is called
    step,        \* iterations of `for _ in range(5)` completed in the current attempt
    messages,    \* the local list `messages` of the current attempt
    lastSent,    \* history: the list passed as messages= to the latest remote call
    lastTurn,    \* history: what the latest loop iteration of the current attempt did
    exc,         \* the exception in flight out of the current attempt ("none" if none)
    outcome,     \* how run() ended for its caller: "none" | "final" | "exhausted" | "RetryError"
    remoteCalls, \* history: chat.completions.create calls made by this invocation of run()
    remoteFails, \* history: how many of them raised
    fatalFails,  \* history: how many of them raised an error that is not transient
    toolTurns,   \* history: responses that carried a function_call
    toolRuns,    \* history: tool functions entered
    printed      \* history: number of print(msg.content) executed

\* one call of a tool function (agent_orchestrator.py 22-42, competitor_scraper.py 11-60)
VARIABLES
    tpc,         \* "idle" | "returned" | "raised"
    tname,       \* the tool function called
    tparams,     \* its params dict
    texc,        \* the exception it raised ("none" if none)
    tresult,     \* what it returned ("none" if nothing)
    tnet         \* history: collaborator / remote calls it made

\* the idea post-processing of run_agent (orchestrator.py 78-88) and compose()
VARIABLES
    ipc,         \* "idle" | "filter" | "composed" | "composed_raw"
    batch,       \* the list `ideas` returned by analyze(), or passed to compose()
    idx,         \* items of batch the filter loop has handled
    deduped,     \* the list `deduped`
    composed,    \* the list compose() returned
    uuids        \* history: number of uuid4() values drawn

\* a DeduplicationChecker (deduplication/checker.py)
VARIABLES
    seen,        \* _seen_hashes
    lastOp,      \* history: the latest call on the checker and what it returned
    addedTitles  \* history: the normalized display titles of the ideas added so far

\* the command-line process of orchestrator.py (imports, main)
VARIABLES
    cpc,         \* "off" | "importing" | "main" | "configured" | "running" | "crashed" | "exited"
    env,         \* the environment: each setting absent, empty or set
    cmsg,        \* what the process reported when it stopped
    cnet         \* history: network calls the process made

\* a call of generate_new_ideas under its retry decorator (reasoning.py)
VARIABLES
    rpc,         \* "idle" | "calling" | "failed" | "returned" | "raised"
    rattempt,    \* attempt number of the decorator
    rcalls,      \* history: remote calls made
    rlast,       \* history: what the remote call of this attempt produced
    rresult,     \* the list returned
    rexc         \* the exception of the attempt or of the call

\* a call of retrieve_roadmap_documents (roadmap_retriever.py)
VARIABLES
    kpc,         \* "idle" | "loop" | "returned" | "raised"
    visited,     \* the set `visited`
    documents,   \* the list `documents`, by url
    queue,       \* the list `queue`
    kfailed,     \* history: urls whose fetch failed
    kfetches,    \* history: the urls requests.get was called with, in order
    klinked      \* history: the urls the fetched pages linked to

\* the Jira retriever (retrievers/jira_retriever.py): the module's globals
\* and one call of get_roadmap_ideas or fetch_all_issues
VARIABLES
    jpc,         \* "unloaded" | "import_failed" | "ready" | "fetching" | "returned" | "raised"
    jglobals,    \* JIRA_URL, JIRA_PROJECT_KEY, JIRA_AUTH_TOKEN, JIRA_JQL of the module
    jargs,       \* the arguments of the call
    jm,          \* max_results of the call
    jstart,      \* start_at
    jtotal,      \* history: the total the server reports, -1 before it has answered
    jissues,     \* the list `issues`
    jattempt,    \* attempt number of the decorator of _jira_get for this request
    jerrs,       \* history: the errors of the failed attempts of this request
    jhttp,       \* history: every HTTP request sent, its startAt and whether it succeeded
    jexc         \* the exception that left the call

\* a call of collect_ratings (feedback/collector.py)
VARIABLES
    fpc,         \* "idle" | "prompting" | "written" | "raised"
    fideas,      \* the ids of the ideas passed in
    fidx,        \* the idea being rated, counted from 1
    ratings,     \* the list `ratings`
    flast,       \* history: the latest text typed, for which idea, and whether it was recorded
    ffile        \* output/feedback.json

\* the target file of export_markdown (output/export.py)
VARIABLES
    xpc,         \* "idle" | "exported"
    xitems,      \* the list passed to the latest call
    xprev,       \* history: the characters of the file before the latest call
    xfile        \* the characters of the target file

\* one call of run_agent (orchestrator.py 60-107)
VARIABLES
    ppc,         \* "idle" | "running" | "returned" | "raised"
    ptrace,      \* history: the pipeline steps taken, in order
    pdocs,       \* roadmap_docs
    pissues,     \* jira_issues
    panalyzed,   \* history: the arguments analyze() was called with
    pideas,      \* `ideas`: what analyze returned, then the filtered list
    pseen,       \* the seen-set of the orchestrator's checker
    pcomposed,   \* `composed`
    pjson,       \* output/ideas.json
    pmarkdown,   \* output/ideas.md
    prated,      \* history: the list collect_ratings was called with
    preturn      \* the value returned

agentVars == <<pc, goal, attempt, step, messages, lastSent, lastTurn, exc, outcome,
               remoteCalls, remoteFails, fatalFails, toolTurns, toolRuns, printed>>

toolVars == <<tpc, tname, tparams, texc, tresult, tnet>>

ideaVars == <<ipc, batch, idx, deduped, composed, uuids>>

checkerVars == <<seen, lastOp, addedTitles>>

configVars == <<cpc, env, cmsg, cnet>>

reasoningVars == <<rpc, rattempt, rcalls, rlast, rresult, rexc>>

crawlVars == <<kpc, visited, documents, queue, kfailed, kfetches, klinked>>

jiraVars == <<jpc, jglobals, jargs, jm, jstart, jtotal, jissues, jattempt, jerrs, jhttp, jexc>>

\* the variables of the components from the Jira retriever on
feedbackVars == <<fpc, fideas, fidx, ratings, flast, ffile>>

exportVars == <<xpc, xitems, xprev, xfile>>

pipelineVars ==
    <<ppc, ptrace, pdocs, pissues, panalyzed, pideas, pseen, pcomposed, pjson, pmarkdown,
      prated, preturn>>

restVars == <<jiraVars, feedbackVars, exportVars, pipelineVars>>

vars ==
    <<agentVars, toolVars, ideaVars, checkerVars, configVars, reasoningVars, crawlVars, restVars>>

----------------------------------------------------------------------------
(* Bounds of the model and constants of the program *)

\* number of distinct goals run() is called with
NumGoals == 1

\* stop_after_attempt(4)
MaxAttempts == 4

\* for _ in range(5)
MaxSteps == 5

Goals == 1..NumGoals

----------------------------------------------------------------------------
(* Inputs: what the backend answers and what the collaborators do *)

\* keys of TOOLS
RegisteredTools == {"fetch_roadmap", "fetch_jira", "fetch_competitors"}

\* names the backend may put in function_call.name; "fetch_news" is not registered
RequestedNames == RegisteredTools \cup {"fetch_news"}

\* function_call.arguments as sent by the backend: text that json.loads rejects,
\* an object with the tool's required parameter, an object without it
ArgTexts == {"not_json", "with_required", "without_required"}

\* what the collaborator behind a tool does when it is reached
ToolIO == {"returns", "io_error"}

\* exceptions chat.completions.create raises; all are OpenAIError subclasses.
\* RateLimitError, APITimeoutError, InternalServerError are transient;
\* AuthenticationError and BadRequestError are not.
TransientErrors == {"RateLimitError", "APITimeoutError", "InternalServerError"}
FatalErrors == {"AuthenticationError", "BadRequestError"}
RemoteErrors == TransientErrors \cup FatalErrors

NoTurn == [kind |-> "none", name |-> "none", args |-> "none", ran |-> FALSE, io |-> FALSE]

----------------------------------------------------------------------------
(* Pure helpers *)

IsPrefix(s, t) ==
    /\ Len(s) <= Len(t)
    /\ \A i \in 1..Len(s) : s[i] = t[i]

\* mutant: the goal is put first and the instruction second
SeedMessagesUserFirst(g) ==
    << [role |-> "user", content |-> g, function_call |-> "none", name |-> "none"],
       [role |-> "system", content |-> "instruction", function_call |-> "none", name |-> "none"] >>

SeedMessages(g) ==
    << [role |-> "system", content |-> "instruction", function_call |-> "none", name |-> "none"],
       [role |-> "user", content |-> g, function_call |-> "none", name |-> "none"] >>

AssistantMessage(n) ==
    [role |-> "assistant", content |-> "null", function_call |-> n, name |-> "none"]

FunctionMessage(n) ==
    [role |-> "function", content |-> "result", function_call |-> "none", name |-> n]

\* mutant: the result message is left out
AppendToolExchangeNoResult(msgs, n) ==
    Append(msgs, AssistantMessage(n))

AppendToolExchange(msgs, n) ==
    Append(Append(msgs, AssistantMessage(n)), FunctionMessage(n))

\* json.loads(msg.function_call.arguments)
JsonLoads(text) ==
    IF text = "not_json" THEN "JSONDecodeError" ELSE "ok"

\* mutant: a lookup that falls back to a registered tool, as TOOLS.get(name, default) would
LookupWithDefault(n) ==
    "found"

\* TOOLS[name]
Lookup(n) ==
    IF n \in RegisteredTools THEN "found" ELSE "KeyError"

\* `if not url: raise ValueError(...)` ahead of the collaborator call
Validate(args) ==
    IF args = "with_required" THEN "ok" ELSE "ValueError"

\* mutant: the stop condition is late by one attempt
StopAfterAttemptLate(n) ==
    n > MaxAttempts

\* mutant: the wrapper allows a fifth attempt
StopAfterFiveAttempts(n) ==
    n >= MaxAttempts + 1

\* stop=stop_after_attempt(4)
StopAfterAttempt(n) ==
    n >= MaxAttempts

\* mutant: the loop runs one iteration more
LoopOverLate(s) ==
    s > MaxSteps

\* `for _ in range(5)`: no iteration is left after s of them
LoopOver(s) ==
    s >= MaxSteps

\* The exception, if any, of lines 128-129 for a function_call (n, args) whose
\* collaborator does io
DispatchError(n, args, io) ==
    IF JsonLoads(args) # "ok" THEN "JSONDecodeError"
    ELSE IF Lookup(n) # "found" THEN "KeyError"
    ELSE IF Validate(args) # "ok" THEN "ValueError"
    ELSE IF io = "io_error" THEN "ToolIOError"
    ELSE "none"

\* whether a tool function is entered
ToolEntered(n, args) ==
    JsonLoads(args) = "ok" /\ Lookup(n) = "found"

\* whether the collaborator behind the tool is reached (network I/O)
ToolReachesIO(n, args) ==
    ToolEntered(n, args) /\ Validate(args) = "ok"

----------------------------------------------------------------------------
(* State machine *)

\* no tool function has been called
ToolInit ==
    /\ tpc = "idle"
    /\ tname = "none"
    /\ tparams = << >>
    /\ texc = "none"
    /\ tresult = "none"
    /\ tnet = 0

\* a placeholder where no idea is involved
NoIdea ==
    [kind |-> "none", title |-> <<"None">>, summary |-> <<"None">>, problem |-> <<"None">>,
     proposal |-> <<"None">>, business_value |-> <<"None">>,
     confidence_score |-> <<"None">>, text |-> <<"None">>]

NoOp ==
    [op |-> "none", idea |-> NoIdea, other |-> NoIdea, hash |-> << >>,
     otherHash |-> << >>, result |-> FALSE]

\* AgentOrchestrator.__init__ of orchestrator.py: nothing analysed yet
IdeaInit ==
    /\ ipc = "idle"
    /\ batch = << >>
    /\ idx = 0
    /\ deduped = << >>
    /\ composed = << >>
    /\ uuids = 0

\* DeduplicationChecker.__init__
CheckerInit ==
    /\ seen = {}
    /\ lastOp = NoOp
    /\ addedTitles = {}

\* the settings main() requires (orchestrator.py 115-123), in that order
RequiredKeys == <<"JIRA_URL", "JIRA_PROJECT_KEY", "JIRA_AUTH_TOKEN", "OPENAI_API_KEY", "ROADMAP_URL">>

KeySet == {RequiredKeys[i] : i \in 1..Len(RequiredKeys)}

\* the process has not been launched
ConfigInit ==
    /\ cpc = "off"
    /\ env = [k \in KeySet |-> "absent"]
    /\ cmsg = [kind |-> "none", keys |-> << >>]
    /\ cnet = 0

NoContent == [kind |-> "no_call", items |-> << >>]

\* generate_new_ideas has not been called
ReasoningInit ==
    /\ rpc = "idle"
    /\ rattempt = 0
    /\ rcalls = 0
    /\ rlast = NoContent
    /\ rresult = << >>
    /\ rexc = "none"

\* retrieve_roadmap_documents has not been called
CrawlInit ==
    /\ kpc = "idle"
    /\ visited = {}
    /\ documents = << >>
    /\ queue = << >>
    /\ kfailed = {}
    /\ kfetches = << >>
    /\ klinked = {}

NoJiraArgs ==
    [fn |-> "none", jira_url |-> "absent", auth_token |-> "absent", project_key |-> "absent",
     jql |-> "absent"]

\* retrievers.jira_retriever has not been imported
JiraInit ==
    /\ jpc = "unloaded"
    /\ jglobals = [JIRA_URL |-> "absent", JIRA_PROJECT_KEY |-> "absent",
                   JIRA_AUTH_TOKEN |-> "absent", JIRA_JQL |-> "absent"]
    /\ jargs = NoJiraArgs
    /\ jm = 0
    /\ jstart = 0
    /\ jtotal = -1
    /\ jissues = << >>
    /\ jattempt = 0
    /\ jerrs = << >>
    /\ jhttp = << >>
    /\ jexc = "none"

NoInput == [idx |-> 0, text |-> "none", recorded |-> FALSE]

\* collect_ratings has not been called
FeedbackInit ==
    /\ fpc = "idle"
    /\ fideas = << >>
    /\ fidx = 0
    /\ ratings = << >>
    /\ flast = NoInput
    /\ ffile = << >>

\* export_markdown has not been called; the target does not exist
ExportInit ==
    /\ xpc = "idle"
    /\ xitems = << >>
    /\ xprev = << >>
    /\ xfile = << >>

\* run_agent has not been called
PipelineInit ==
    /\ ppc = "idle"
    /\ ptrace = << >>
    /\ pdocs = "none"
    /\ pissues = "none"
    /\ panalyzed = [docs |-> "none", issues |-> "none"]
    /\ pideas = << >>
    /\ pseen = {}
    /\ pcomposed = << >>
    /\ pjson = << >>
    /\ pmarkdown = << >>
    /\ prated = << >>
    /\ preturn = << >>

Init ==
    /\ ToolInit
    /\ IdeaInit
    /\ CheckerInit
    /\ ConfigInit
    /\ ReasoningInit
    /\ CrawlInit
    /\ JiraInit
    /\ FeedbackInit
    /\ ExportInit
    /\ PipelineInit
    /\ pc = "idle"
    /\ goal = 0
    /\ attempt = 0
    /\ step = 0
    /\ messages = << >>
    /\ lastSent = << >>
    /\ lastTurn = NoTurn
    /\ exc = "none"
    /\ outcome = "none"
    /\ remoteCalls = 0
    /\ remoteFails = 0
    /\ fatalFails = 0
    /\ toolTurns = 0
    /\ toolRuns = 0
    /\ printed = 0

\* orchestrator.run(goal=...): the retry wrapper makes its first attempt
StartRun(g) ==
    /\ pc = "idle"
    /\ pc' = "loop"
    /\ goal' = g
    /\ attempt' = 1
    /\ step' = 0
    /\ messages' = SeedMessages(g)
    /\ UNCHANGED <<lastSent, lastTurn, exc, outcome, remoteCalls, remoteFails,
                   fatalFails, toolTurns, toolRuns, printed>>

\* chat.completions.create raises e; both except clauses re-raise
RemoteRaises(e) ==
    /\ pc = "loop"
    /\ ~LoopOver(step)
    /\ pc' = "raised"
    /\ exc' = e
    /\ lastSent' = messages
    /\ lastTurn' = [kind |-> "remote_error", name |-> "none", args |-> "none",
                    ran |-> FALSE, io |-> FALSE]
    /\ remoteCalls' = remoteCalls + 1
    /\ remoteFails' = remoteFails + 1
    /\ fatalFails' = IF e \in FatalErrors THEN fatalFails + 1 ELSE fatalFails
    /\ UNCHANGED <<goal, attempt, step, messages, outcome, toolTurns, toolRuns, printed>>

\* mutant: the final text is printed but the loop goes on instead of returning
FinalResponseNoReturn ==
    /\ pc = "loop"
    /\ ~LoopOver(step)
    /\ pc' = IF LoopOver(step + 1) THEN "done" ELSE "loop"
    /\ step' = step + 1
    /\ outcome' = "final"
    /\ printed' = printed + 1
    /\ lastSent' = messages
    /\ lastTurn' = [kind |-> "final", name |-> "none", args |-> "none",
                    ran |-> FALSE, io |-> FALSE]
    /\ remoteCalls' = remoteCalls + 1
    /\ UNCHANGED <<goal, attempt, messages, exc, remoteFails, fatalFails,
                   toolTurns, toolRuns>>

\* the response has no function_call: print(msg.content); return
FinalResponse ==
    /\ pc = "loop"
    /\ ~LoopOver(step)
    /\ pc' = "done"
    /\ outcome' = "final"
    /\ printed' = printed + 1
    /\ lastSent' = messages
    /\ lastTurn' = [kind |-> "final", name |-> "none", args |-> "none",
                    ran |-> FALSE, io |-> FALSE]
    /\ remoteCalls' = remoteCalls + 1
    /\ UNCHANGED <<goal, attempt, step, messages, exc, remoteFails, fatalFails,
                   toolTurns, toolRuns>>

\* the response carries function_call (n, args); the collaborator behaves as io
ToolCallResponse(n, args, io) ==
    /\ pc = "loop"
    /\ ~LoopOver(step)
    /\ lastSent' = messages
    /\ remoteCalls' = remoteCalls + 1
    /\ toolTurns' = toolTurns + 1
    /\ toolRuns' = IF ToolEntered(n, args) THEN toolRuns + 1 ELSE toolRuns
    /\ lastTurn' = [kind |-> "tool_call", name |-> n, args |-> args,
                    ran |-> ToolEntered(n, args),
                    io |-> ToolReachesIO(n, args)]
    /\ IF DispatchError(n, args, io) # "none"
       THEN /\ pc' = "raised"
            /\ exc' = DispatchError(n, args, io)
            /\ UNCHANGED <<step, messages, outcome>>
       ELSE /\ messages' = AppendToolExchange(messages, n)
            /\ step' = step + 1
            /\ exc' = exc
            \* the for loop is over after the last iteration: run() returns None
            /\ IF LoopOver(step + 1)
               THEN pc' = "done" /\ outcome' = "exhausted"
               ELSE pc' = "loop" /\ outcome' = outcome
    /\ UNCHANGED <<goal, attempt, remoteFails, fatalFails, printed>>

\* the retry wrapper: an exception left run(); not stopped yet, so sleep and call again
RetryAgain ==
    /\ pc = "raised"
    /\ ~StopAfterAttempt(attempt)
    /\ pc' = "loop"
    /\ attempt' = attempt + 1
    /\ step' = 0
    /\ messages' = SeedMessages(goal)
    /\ exc' = "none"
    /\ lastTurn' = NoTurn
    /\ UNCHANGED <<goal, lastSent, outcome, remoteCalls, remoteFails, fatalFails,
                   toolTurns, toolRuns, printed>>

\* mutant: the wrapper swallows the last exception and returns None
RetryGiveUpSwallow ==
    /\ pc = "raised"
    /\ StopAfterAttempt(attempt)
    /\ pc' = "done"
    /\ outcome' = "exhausted"
    /\ UNCHANGED <<goal, attempt, step, messages, lastSent, lastTurn, exc,
                   remoteCalls, remoteFails, fatalFails, toolTurns, toolRuns, printed>>

\* the retry wrapper: attempts used up, RetryError reaches the caller of run()
RetryGiveUp ==
    /\ pc = "raised"
    /\ StopAfterAttempt(attempt)
    /\ pc' = "done"
    /\ outcome' = "RetryError"
    /\ UNCHANGED <<goal, attempt, step, messages, lastSent, lastTurn, exc,
                   remoteCalls, remoteFails, fatalFails, toolTurns, toolRuns, printed>>

\* a step of run() leaves the other components alone
AgentFrame ==
    UNCHANGED <<toolVars, ideaVars, checkerVars, configVars, reasoningVars, crawlVars, restVars>>

Next ==
    \/ \E g \in Goals : StartRun(g) /\ AgentFrame
    \/ \E e \in RemoteErrors : RemoteRaises(e) /\ AgentFrame
    \/ FinalResponse /\ AgentFrame
    \/ \E n \in RequestedNames, a \in ArgTexts, io \in ToolIO :
          ToolCallResponse(n, a, io) /\ AgentFrame
    \/ RetryAgain /\ AgentFrame
    \/ RetryGiveUp /\ AgentFrame

Spec == Init /\ [][Next]_vars

\* the same invocation when every remote call and every tool call returns or
\* raises and every wait of the retry wrapper (wait_random_exponential, at most
\* 10 s) ends: a step that can be taken is taken
\* How the run ends depends on whether a call returns or raises, not on which
\* error or which registered tool it is: one transient and one fatal error,
\* one registered and the unregistered tool name stand for the rest.
TerminatingErrors == {"RateLimitError", "AuthenticationError"}
TerminatingNames == {"fetch_roadmap", "fetch_news"}

TerminatingNext ==
    \/ \E g \in Goals : StartRun(g) /\ AgentFrame
    \/ \E e \in TerminatingErrors : RemoteRaises(e) /\ AgentFrame
    \/ FinalResponse /\ AgentFrame
    \/ \E n \in TerminatingNames, a \in ArgTexts, io \in ToolIO :
          ToolCallResponse(n, a, io) /\ AgentFrame
    \/ RetryAgain /\ AgentFrame
    \/ RetryGiveUp /\ AgentFrame

SpecTerminating == Init /\ [][TerminatingNext]_vars /\ WF_vars(TerminatingNext)

----------------------------------------------------------------------------
(* Properties of the agent loop *)

\* a step in which chat.completions.create is called
RemoteCallStep ==
    remoteCalls' = remoteCalls + 1

\* C1: one invocation of run() makes at most 5 tool-call turns and at most 5
\* remote calls; a 6th remote call is never issued.
C1_StepCeiling ==
    remoteCalls <= MaxSteps /\ toolTurns <= MaxSteps

\* every function_call message of conv is directly followed by one function
\* message of the same name, and by no second one
CallsPaired(conv) ==
    \A i \in 1..Len(conv) :
        conv[i].function_call # "none" =>
            /\ i + 1 <= Len(conv)
            /\ conv[i + 1].role = "function"
            /\ conv[i + 1].name = conv[i].function_call
            /\ (i + 2 <= Len(conv) => conv[i + 2].role # "function")

\* every function message of conv directly follows the call it answers
ResultsPaired(conv) ==
    \A i \in 1..Len(conv) :
        conv[i].role = "function" =>
            /\ i > 1
            /\ conv[i - 1].role = "assistant"
            /\ conv[i - 1].function_call = conv[i].name

\* C2: in every conversation passed to the backend, each assistant tool-call
\* message is immediately followed by exactly one tool-result message bearing
\* the same tool name, with nothing in between.
C2_CallResultAdjacent ==
    CallsPaired(lastSent) /\ ResultsPaired(lastSent)

\* C2 witness: a conversation with two exchanges of different tools was sent
C2_Witness ==
    /\ Len(lastSent) >= 6
    /\ lastSent[3].function_call = "fetch_jira"
    /\ lastSent[5].function_call = "fetch_roadmap"

\* C3: on a final answer run() emits the text exactly once and stops; no remote
\* call and no tool invocation follows, even when steps remain.
C3_FinalStops ==
    /\ [](printed >= 1 => (printed = 1 /\ pc = "done" /\ outcome = "final"
                           /\ lastTurn.kind = "final" /\ exc = "none"))
    /\ [][printed >= 1 => (remoteCalls' = remoteCalls /\ toolRuns' = toolRuns
                           /\ toolTurns' = toolTurns /\ printed' = printed)]_vars

\* C3 witness: a final answer after two tool exchanges, with steps remaining
C3_Witness ==
    /\ outcome = "final"
    /\ printed = 1
    /\ step = 2
    /\ step < MaxSteps

\* a step of the last allowed attempt in which the remote call returns a
\* response, each of the three earlier attempts having ended in a transient
\* failure of the remote call
FourthTrySucceeds ==
    /\ pc = "loop"
    /\ attempt = MaxAttempts
    /\ remoteFails = MaxAttempts - 1
    /\ fatalFails = 0
    /\ RemoteCallStep
    /\ remoteFails' = remoteFails

\* C4: a remote call is tried at most 4 times in total; when tries 1-3 fail
\* transiently and try 4 succeeds, run() goes on with that response and the
\* remote call raises no error.
C4_RetryBudget ==
    /\ [](attempt <= MaxAttempts /\ remoteFails <= MaxAttempts)
    /\ [][FourthTrySucceeds =>
            /\ exc' \notin RemoteErrors
            /\ outcome' # "RetryError"
            /\ lastTurn'.kind \in {"final", "tool_call"}
            /\ lastTurn'.kind = "final" => (pc' = "done" /\ outcome' = "final")
            /\ (lastTurn'.kind = "tool_call" /\ exc' = "none") =>
                   /\ step' = step + 1
                   /\ messages' = AppendToolExchange(messages, lastTurn'.name)
                   /\ pc' = (IF LoopOver(step') THEN "done" ELSE "loop")]_vars

\* C4 witness: three transient failures, then the fourth try returned a tool
\* call and the loop goes on
C4_Witness ==
    /\ attempt = MaxAttempts
    /\ remoteCalls = MaxAttempts
    /\ remoteFails = MaxAttempts - 1
    /\ fatalFails = 0
    /\ pc = "loop"
    /\ step = 1

\* C5: a remote failure that is not transient (malformed or unauthorized
\* request) is not retried: the next thing that happens is run() ending.
C5_FatalNotRetried ==
    [][(pc = "raised" /\ exc \in FatalErrors) =>
          (pc' = "done" /\ attempt' = attempt)]_vars

\* exceptions of a failed tool invocation
ToolErrors == {"KeyError", "ValueError", "ToolIOError"}

\* C6: a failed tool invocation is not caught or retried: the next thing that
\* happens is run() ending, so no remote call and no tool invocation follows.
C6_ToolErrorAborts ==
    [][(pc = "raised" /\ exc \in ToolErrors) =>
          (pc' = "done" /\ attempt' = attempt)]_vars

\* C7: when every remote call fails, run() stops after exactly 4 attempts with
\* an error for its caller; it never returns normally, prints no final text and
\* invokes no tool.
C7_AllAttemptsFail ==
    remoteFails = remoteCalls =>
        /\ toolRuns = 0
        /\ toolTurns = 0
        /\ printed = 0
        /\ remoteCalls <= MaxAttempts
        /\ outcome \in {"none", "RetryError"}
        /\ pc = "done" =>
              (outcome = "RetryError" /\ attempt = MaxAttempts
               /\ remoteCalls = MaxAttempts)
        /\ (pc = "raised" /\ attempt = MaxAttempts) => ~ENABLED RetryAgain

\* C7 witness: four transient failures and the error outcome
C7_Witness ==
    /\ pc = "done"
    /\ outcome = "RetryError"
    /\ remoteCalls = MaxAttempts
    /\ remoteFails = MaxAttempts
    /\ fatalFails = 0
    /\ exc \in TransientErrors

\* C8: within one invocation of run() the list sent on a remote call has the
\* list sent on the previous remote call as a prefix (hence, the relation
\* being transitive, that of every earlier call).
C8_AppendOnly ==
    [][RemoteCallStep => IsPrefix(lastSent, lastSent')]_vars

\* C9: after 5 successful tool-call turns run() ends normally, exhausted: no
\* error, no final text, no further attempt and no further remote call.
C9_ExhaustedEndsNormally ==
    /\ [](step >= MaxSteps =>
            /\ step = MaxSteps
            /\ pc = "done"
            /\ outcome = "exhausted"
            /\ exc = "none"
            /\ printed = 0
            /\ Len(messages) = 2 + 2 * MaxSteps)
    /\ [](outcome = "exhausted" => (pc = "done" /\ step = MaxSteps))
    /\ [][step >= MaxSteps =>
            (attempt' = attempt /\ remoteCalls' = remoteCalls)]_vars

\* C9 witness: the run ended exhausted
C9_Witness ==
    /\ pc = "done"
    /\ outcome = "exhausted"
    /\ step = MaxSteps
    /\ toolRuns >= MaxSteps

\* the latest turn requested a tool that is not a key of TOOLS
UnknownToolRequested ==
    lastTurn.kind = "tool_call" /\ lastTurn.name \notin RegisteredTools

\* C10 as stated: a request for a name that is not a key of TOOLS fails with
\* the unknown-tool error, runs no tool function and does no network I/O.
C10_UnknownToolAsStated ==
    UnknownToolRequested =>
        (exc = "KeyError" /\ ~lastTurn.ran /\ ~lastTurn.io)

\* C10 amended: such a request runs no tool function and does no tool network
\* I/O; it fails with the unknown-tool error when its arguments parse, and with
\* the parse error of json.loads, which runs first, when they do not.
C10_UnknownToolAmended ==
    UnknownToolRequested =>
        /\ ~lastTurn.ran
        /\ ~lastTurn.io
        /\ pc \in {"raised", "done"}
        /\ exc = (IF JsonLoads(lastTurn.args) = "ok" THEN "KeyError"
                  ELSE "JSONDecodeError")

\* C10 witness: an unknown tool requested with arguments that parse
C10_Witness ==
    /\ UnknownToolRequested
    /\ lastTurn.args = "with_required"
    /\ exc = "KeyError"
    /\ pc = "raised"

----------------------------------------------------------------------------
(* The tool functions: _tool_fetch_roadmap, _tool_fetch_jira, fetch_competitors *)

\* what params.get(<key>) finds: no such key, an empty string, a non-empty string
ParamValues == {"absent", "empty", "value"}

\* params dicts the backend can send
ParamDicts ==
    [roadmap_url : ParamValues, jql : ParamValues, product_name : ParamValues,
     max_results : {"absent", "value"}]

\* what the model behind fetch_competitors answers: a JSON list, a JSON list in
\* a ``` fence, text that is no JSON either way, or the remote call raises
CompetitorReplies == {"json", "fenced_json", "garbage", "io_error"}

\* mutant: only a missing key is rejected, as `if url is None` would
NotGivenNoneOnly(v) ==
    v = "absent"

\* `not url`, `not jql`, `not product`: None and "" are both falsy
NotGiven(v) ==
    v \in {"absent", "empty"}

\* _tool_fetch_roadmap(params); the collaborator retrieve_roadmap_documents does io
ToolFetchRoadmap(p, io) ==
    /\ tpc = "idle"
    /\ tname' = "fetch_roadmap"
    /\ tparams' = p
    /\ IF NotGiven(p.roadmap_url)
       THEN tpc' = "raised" /\ texc' = "ValueError" /\ tresult' = "none" /\ tnet' = tnet
       ELSE /\ tnet' = tnet + 1
            /\ IF io = "io_error"
               THEN tpc' = "raised" /\ texc' = "ToolIOError" /\ tresult' = "none"
               ELSE tpc' = "returned" /\ texc' = "none" /\ tresult' = "docs"

\* _tool_fetch_jira(params); the collaborator fetch_jira_issues does io
ToolFetchJira(p, io) ==
    /\ tpc = "idle"
    /\ tname' = "fetch_jira"
    /\ tparams' = p
    /\ IF NotGiven(p.jql)
       THEN tpc' = "raised" /\ texc' = "ValueError" /\ tresult' = "none" /\ tnet' = tnet
       ELSE /\ tnet' = tnet + 1
            /\ IF io = "io_error"
               THEN tpc' = "raised" /\ texc' = "ToolIOError" /\ tresult' = "none"
               ELSE tpc' = "returned" /\ texc' = "none" /\ tresult' = "issues"

\* fetch_competitors(params); the remote model answers with reply
FetchCompetitors(p, reply) ==
    /\ tpc = "idle"
    /\ tname' = "fetch_competitors"
    /\ tparams' = p
    /\ IF NotGiven(p.product_name)
       THEN tpc' = "raised" /\ texc' = "ValueError" /\ tresult' = "none" /\ tnet' = tnet
       ELSE /\ tnet' = tnet + 1
            /\ IF reply = "io_error"
               THEN tpc' = "raised" /\ texc' = "ToolIOError" /\ tresult' = "none"
               ELSE /\ tpc' = "returned"
                    /\ texc' = "none"
                    /\ tresult' = (IF reply = "garbage" THEN "empty_list" ELSE "competitors")

\* a step of the tool functions leaves the other components alone
ToolFrame ==
    UNCHANGED <<agentVars, ideaVars, checkerVars, configVars, reasoningVars, crawlVars, restVars>>

ToolNext ==
    \/ \E p \in ParamDicts, io \in ToolIO : ToolFetchRoadmap(p, io) /\ ToolFrame
    \/ \E p \in ParamDicts, io \in ToolIO : ToolFetchJira(p, io) /\ ToolFrame
    \/ \E p \in ParamDicts, reply \in CompetitorReplies : FetchCompetitors(p, reply) /\ ToolFrame

SpecTools == Init /\ [][ToolNext]_vars

\* the required parameter of each tool, as its description advertises it
RequiredParam(t) ==
    CASE t = "fetch_roadmap" -> "roadmap_url"
      [] t = "fetch_jira" -> "jql"
      [] t = "fetch_competitors" -> "product_name"

\* C11: a tool called without its required parameter, or with an empty one,
\* fails with the invalid-arguments error and makes no collaborator or remote
\* call.
C11_ValidationBeforeIO ==
    (tpc # "idle" /\ tparams[RequiredParam(tname)] \in {"absent", "empty"}) =>
        (tpc = "raised" /\ texc = "ValueError" /\ tnet = 0 /\ tresult = "none")

\* C11 witness: fetch_competitors called with an empty product_name
C11_Witness ==
    /\ tpc = "raised"
    /\ tname = "fetch_competitors"
    /\ tparams.product_name = "empty"
    /\ texc = "ValueError"

----------------------------------------------------------------------------
(* The conversation each remote call sees *)

\* C12: the first remote call of a run sees exactly the two seed messages, the
\* system instruction and then the user's goal; the k-th remote call of an
\* attempt (k = step + 1) sees exactly 2 + 2(k-1) messages, the first two being
\* the seed messages.
C12_ConversationShape ==
    [][RemoteCallStep =>
          /\ lastSent' = messages
          /\ Len(lastSent') = 2 + 2 * step
          /\ lastSent'[1] = [role |-> "system", content |-> "instruction",
                             function_call |-> "none", name |-> "none"]
          /\ lastSent'[2] = [role |-> "user", content |-> goal,
                             function_call |-> "none", name |-> "none"]
          /\ (remoteCalls = 0 => Len(lastSent') = 2)
          /\ \A i \in 3..Len(lastSent') : lastSent'[i].role \in {"assistant", "function"}]_vars

\* C12 witness: the third remote call of a second attempt saw six messages
C12_Witness ==
    /\ attempt = 2
    /\ lastTurn.kind # "none"
    /\ Len(lastSent) = 6
    /\ remoteCalls >= 4

\* ------------------------------------------------------------------------
\* Ideas: deduplication/checker.py, ideas/composer.py and the filter loop
\* of orchestrator.py.  A text is a sequence of characters; an absent key
\* (dict.get returning None) is the one-element sequence <<"None">>, which
\* no text of the model equals.
\* ------------------------------------------------------------------------

MaxBatchLen == 3

Absent == <<"None">>

\* the values a title may take: absent, empty, " A"
TitleValues == {Absent, << >>, <<" ", "A">>}

SummaryValues == {Absent, <<"b">>}

\* a dict idea; the four remaining fields are all absent or all present
DictIdea(t, s, full) ==
    [kind |-> "dict", title |-> t, summary |-> s,
     problem |-> IF full THEN <<"p">> ELSE Absent,
     proposal |-> IF full THEN <<"q">> ELSE Absent,
     business_value |-> IF full THEN <<"v">> ELSE Absent,
     confidence_score |-> IF full THEN <<"0.9">> ELSE Absent,
     text |-> Absent]

\* a value that is not a dict: a plain string, None, a number
PlainIdea(k, txt) ==
    [kind |-> k, title |-> Absent, summary |-> Absent, problem |-> Absent,
     proposal |-> Absent, business_value |-> Absent, confidence_score |-> Absent,
     text |-> txt]

DictIdeas == {DictIdea(t, s, f) : t \in TitleValues, s \in SummaryValues, f \in BOOLEAN}

PlainIdeas ==
    {PlainIdea("str", <<"a", " ">>), PlainIdea("none", <<"N", "o", "n", "e">>),
     PlainIdea("int", <<"4", "2">>)}

Ideas == DictIdeas \cup PlainIdeas

RECURSIVE ListsUpTo(_, _)
ListsUpTo(S, n) ==
    IF n = 0 THEN {<< >>}
    ELSE LET shorter == ListsUpTo(S, n - 1)
         IN  shorter \cup {Append(l, x) : l \in {m \in shorter : Len(m) = n - 1}, x \in S}

Batches == ListsUpTo(Ideas, MaxBatchLen)

\* the operand of Python's `or`: None and "" are falsy
Truthy(v) == v # Absent /\ v # << >>

\* str.lower() on the alphabet of the model
LowerChar(c) ==
    CASE c = "A" -> "a"
      [] c = "N" -> "n"
      [] OTHER -> c

Lower(t) == [i \in 1..Len(t) |-> LowerChar(t[i])]

\* str.strip(): leading and trailing whitespace removed
RECURSIVE Strip(_)
Strip(t) ==
    IF t = << >> THEN t
    ELSE IF Head(t) = " " THEN Strip(Tail(t))
    ELSE IF t[Len(t)] = " " THEN Strip(SubSeq(t, 1, Len(t) - 1))
    ELSE t

\* one "key: value, " item of a dict's repr, nothing for a key not in the dict
ReprItem(key, v) == IF v = Absent THEN << >> ELSE <<key, "'">> \o v \o <<"'", ",">>

\* str(idea)
Str(idea) ==
    IF idea.kind = "dict"
    THEN <<"{">> \o ReprItem("title:", idea.title) \o ReprItem("summary:", idea.summary)
             \o ReprItem("problem:", idea.problem) \o ReprItem("proposal:", idea.proposal)
             \o ReprItem("business_value:", idea.business_value)
             \o ReprItem("confidence_score:", idea.confidence_score) \o <<"}">>
    ELSE idea.text

\* hashlib.sha1(...).hexdigest(), taken to be free of collisions
Sha1(t) == <<"sha1">> \o t

HashTitleNoLower(idea) ==
    LET title == IF idea.kind = "dict"
                 THEN IF Truthy(idea.title) THEN idea.title
                      ELSE IF Truthy(idea.summary) THEN idea.summary
                      ELSE Str(idea)
                 ELSE Str(idea)
    IN  Sha1(Strip(title))

\* DeduplicationChecker._hash_title
HashTitle(idea) ==
    LET title == IF idea.kind = "dict"
                 THEN IF Truthy(idea.title) THEN idea.title
                      ELSE IF Truthy(idea.summary) THEN idea.summary
                      ELSE Str(idea)
                 ELSE Str(idea)
    IN  Sha1(Lower(Strip(title)))

AddNothing(s, idea) == s \cup {}

AddForgetsOthers(s, idea) == {HashTitle(idea)}

\* DeduplicationChecker.add: the set after the call
Add(s, idea) == s \cup {HashTitle(idea)}

\* DeduplicationChecker.is_duplicate
IsDuplicate(s, idea) == HashTitle(idea) \in s

\* the fallback title of composer.py line 38
Untitled == <<"Untitled idea">>

\* dict.get(key, default)
GetOr(v, default) == IF v = Absent THEN default ELSE v

IsDictOrStr(x) == x.kind \in {"dict", "str"}

\* isinstance(raw, dict)
IsDict(x) == x.kind = "dict"

ComposeTitleSummaryFirst(raw) ==
    IF Truthy(raw.summary) THEN raw.summary
    ELSE IF Truthy(raw.title) THEN raw.title
    ELSE Untitled

\* raw.get("title") or raw.get("summary") or "Untitled idea"
ComposeTitle(raw) ==
    IF Truthy(raw.title) THEN raw.title
    ELSE IF Truthy(raw.summary) THEN raw.summary
    ELSE Untitled

\* the f-string of composer.py lines 44-50
Markdown(title, problem, proposal, business_value, confidence) ==
    <<"* **">> \o title \o <<"**", "  * Problem: ">> \o problem
        \o <<"  * Proposal: ">> \o proposal
        \o <<"  * Business Value: ">> \o business_value
        \o <<"  * Confidence: ">> \o confidence

\* one iteration of the loop of compose() on a dict; id is the uuid drawn
ComposeOne(raw, id) ==
    LET title == ComposeTitle(raw)
        problem == GetOr(raw.problem, << >>)
        proposal == GetOr(raw.proposal, << >>)
        business_value == GetOr(raw.business_value, << >>)
        confidence == raw.confidence_score
    IN  [id |-> id, title |-> title,
         markdown |-> Markdown(title, problem, proposal, business_value, confidence),
         metadata |-> [problem |-> problem, proposal |-> proposal,
                       business_value |-> business_value,
                       confidence_score |-> confidence]]

\* the loop of compose(): non-dict items are skipped, the others appended
RECURSIVE ComposeLoop(_, _, _)
ComposeLoop(ideas, formatted, drawn) ==
    IF ideas = << >> THEN formatted
    ELSE IF ~IsDict(Head(ideas)) THEN ComposeLoop(Tail(ideas), formatted, drawn)
    ELSE ComposeLoop(Tail(ideas), Append(formatted, ComposeOne(Head(ideas), drawn + 1)),
                     drawn + 1)

\* ideas.composer.compose
Compose(ideas, drawn) == ComposeLoop(ideas, << >>, drawn)

\* ideas = self.reasoning.analyze(docs): run_agent receives a list
Analyze(b) ==
    /\ ipc = "idle"
    /\ ipc' = "filter"
    /\ batch' = b
    /\ idx' = 0
    /\ deduped' = << >>
    /\ UNCHANGED <<composed, uuids, seen>>

\* one iteration of `for idea in ideas` (orchestrator.py 82-85)
FilterStep ==
    /\ ipc = "filter"
    /\ idx < Len(batch)
    /\ LET idea == batch[idx + 1]
       IN  IF ~IsDuplicate(seen, idea)
           THEN /\ deduped' = Append(deduped, idea)
                /\ seen' = Add(seen, idea)
           ELSE UNCHANGED <<deduped, seen>>
    /\ idx' = idx + 1
    /\ UNCHANGED <<ipc, batch, composed, uuids>>

\* composed = compose(deduped) once the loop is over (orchestrator.py 88)
ComposeDeduped ==
    /\ ipc = "filter"
    /\ idx = Len(batch)
    /\ composed' = Compose(deduped, uuids)
    /\ uuids' = uuids + Len(composed')
    /\ ipc' = "composed"
    /\ UNCHANGED <<batch, idx, deduped, seen>>

\* compose(raw_ideas) called on a list as it is
ComposeCall(b) ==
    /\ ipc = "idle"
    /\ batch' = b
    /\ composed' = Compose(b, uuids)
    /\ uuids' = uuids + Len(composed')
    /\ ipc' = "composed_raw"
    /\ UNCHANGED <<idx, deduped, seen>>

IdeasFrame ==
    UNCHANGED <<agentVars, toolVars, lastOp, addedTitles, configVars, reasoningVars, crawlVars,
                restVars>>

IdeasNext ==
    \/ ipc = "idle" /\ \E b \in Batches : Analyze(b) /\ IdeasFrame
    \/ FilterStep /\ IdeasFrame
    \/ ComposeDeduped /\ IdeasFrame
    \/ ipc = "idle" /\ \E b \in Batches : ComposeCall(b) /\ IdeasFrame

SpecIdeas == Init /\ [][IdeasNext]_vars

\* ------------------------------------------------------------------------
\* Claims C13, C16, C17
\* ------------------------------------------------------------------------

\* the title an idea is known by: its title, else its summary, else its
\* string form, where an empty text counts as missing
DisplayTitle(idea) ==
    IF idea.kind = "dict" /\ Truthy(idea.title) THEN idea.title
    ELSE IF idea.kind = "dict" /\ Truthy(idea.summary) THEN idea.summary
    ELSE Str(idea)

NormalizedTitle(idea) == Lower(Strip(DisplayTitle(idea)))

\* the items of l whose normalized title no earlier item of l has, in order
RECURSIVE FirstOccurrences(_)
FirstOccurrences(l) ==
    IF l = << >> THEN << >>
    ELSE LET n == Len(l)
             front == SubSeq(l, 1, n - 1)
         IN  IF \E j \in 1..(n - 1) : NormalizedTitle(l[j]) = NormalizedTitle(l[n])
             THEN FirstOccurrences(front)
             ELSE Append(FirstOccurrences(front), l[n])

\* C13: starting from an empty seen-set, the filtered list holds no two
\* ideas with equal normalized titles and is exactly the input with every
\* later occurrence of a normalized title removed: a subsequence of the
\* input, order and items unchanged, the first occurrence kept.  It holds
\* after every iteration for the part of the input handled so far.
C13_FilterKeepsFirst ==
    ipc \in {"filter", "composed"} =>
        /\ deduped = FirstOccurrences(SubSeq(batch, 1, idx))
        /\ \A i, j \in 1..Len(deduped) :
              i # j => NormalizedTitle(deduped[i]) # NormalizedTitle(deduped[j])

C13_Witness ==
    /\ ipc = "composed"
    /\ Len(batch) = 3
    /\ batch[1] = DictIdea(<<" ", "A">>, Absent, TRUE)
    /\ batch[2] = DictIdea(<< >>, Absent, FALSE)
    /\ batch[3] = PlainIdea("str", <<"a", " ">>)
    /\ deduped = <<batch[1], batch[2]>>

\* ------------------------------------------------------------------------
\* A DeduplicationChecker called from outside: add, is_duplicate, the
\* filter of run_agent on one more idea of a later batch, and _hash_title
\* on a pair of ideas
\* ------------------------------------------------------------------------

\* checker.add(x)
CheckerAdd(x) ==
    /\ seen' = Add(seen, x)
    /\ addedTitles' = addedTitles \cup {NormalizedTitle(x)}
    /\ lastOp' = [op |-> "add", idea |-> x, other |-> x, hash |-> HashTitle(x),
                  otherHash |-> HashTitle(x), result |-> FALSE]

\* checker.is_duplicate(y)
CheckerIsDuplicate(y) ==
    /\ lastOp' = [op |-> "is_duplicate", idea |-> y, other |-> y, hash |-> HashTitle(y),
                  otherHash |-> HashTitle(y), result |-> IsDuplicate(seen, y)]
    /\ UNCHANGED <<seen, addedTitles>>

\* orchestrator.py 83-85 for one idea of a later batch of the same orchestrator
CheckerFilter(x) ==
    /\ IF ~IsDuplicate(seen, x)
       THEN /\ seen' = Add(seen, x)
            /\ addedTitles' = addedTitles \cup {NormalizedTitle(x)}
       ELSE UNCHANGED <<seen, addedTitles>>
    /\ lastOp' = [op |-> "filter", idea |-> x, other |-> x, hash |-> HashTitle(x),
                  otherHash |-> HashTitle(x), result |-> IsDuplicate(seen, x)]

CheckerFrame ==
    UNCHANGED <<agentVars, toolVars, ideaVars, configVars, reasoningVars, crawlVars, restVars>>

CheckerNext ==
    \/ \E x \in Ideas : CheckerAdd(x) /\ CheckerFrame
    \/ \E y \in Ideas : CheckerIsDuplicate(y) /\ CheckerFrame
    \/ \E x \in Ideas : CheckerFilter(x) /\ CheckerFrame

SpecChecker == Init /\ [][CheckerNext]_vars

\* checker._hash_title(x) == checker._hash_title(y), as the tests compare them
HashPair(x, y) ==
    /\ lastOp' = [op |-> "hash_title", idea |-> x, other |-> y, hash |-> HashTitle(x),
                  otherHash |-> HashTitle(y), result |-> HashTitle(x) = HashTitle(y)]
    /\ UNCHANGED <<seen, addedTitles>>

HashNext ==
    \E x \in Ideas, y \in Ideas : HashPair(x, y) /\ CheckerFrame

SpecHash == Init /\ [][HashNext]_vars

\* ------------------------------------------------------------------------
\* Claims C14, C15
\* ------------------------------------------------------------------------

\* C14: the seen-set only grows; a checker to which nothing was added
\* reports no idea duplicate; once an idea was added, is_duplicate is true
\* for every idea with the same normalized title at every later point;
\* is_duplicate leaves the set as it was.
C14_SeenSetGrows ==
    /\ [](lastOp.op = "is_duplicate" =>
            /\ (addedTitles = {} => ~lastOp.result)
            /\ (NormalizedTitle(lastOp.idea) \in addedTitles => lastOp.result))
    /\ [][/\ seen \subseteq seen'
          /\ (lastOp'.op = "is_duplicate" => seen' = seen)]_vars

C14_Witness ==
    /\ lastOp.op = "is_duplicate"
    /\ lastOp.idea = PlainIdea("str", <<"a", " ">>)
    /\ lastOp.result
    /\ Cardinality(seen) >= 3
    /\ HashTitle(DictIdea(<<" ", "A">>, <<"b">>, TRUE)) \in seen

\* C15: two ideas with equal normalized display titles have equal
\* fingerprints, whatever their other fields and whether each is a dict or
\* a plain string.
C15_FingerprintOfTitle ==
    lastOp.op = "hash_title" =>
        (NormalizedTitle(lastOp.idea) = NormalizedTitle(lastOp.other)
            => /\ lastOp.hash = lastOp.otherHash
               /\ lastOp.result)

C15_Witness ==
    /\ lastOp.op = "hash_title"
    /\ lastOp.idea = DictIdea(<<" ", "A">>, <<"b">>, TRUE)
    /\ lastOp.other = PlainIdea("str", <<"a", " ">>)
    /\ lastOp.hash = lastOp.otherHash

\* ------------------------------------------------------------------------
\* Claims C16, C17
\* ------------------------------------------------------------------------

\* the list compose() was called on
ComposeInput == IF ipc = "composed_raw" THEN batch ELSE deduped

\* the dict items of a list, in order
DictsOf(l) == SelectSeq(l, LAMBDA x : x.kind = "dict")

\* C16: compose returns one composed idea per dict of its input, in input
\* order, and silently leaves out every item that is not a dict; the
\* output is as long as the input has dicts.
C16_OnePerDict ==
    ipc \in {"composed", "composed_raw"} =>
        /\ Len(composed) = Cardinality({i \in 1..Len(ComposeInput) : ComposeInput[i].kind = "dict"})
        /\ Len(composed) = Len(DictsOf(ComposeInput))
        /\ \A k \in 1..Len(composed) :
              LET d == DictsOf(ComposeInput)[k]
              IN  /\ composed[k].title \in {d.title, d.summary, Untitled}
                  /\ composed[k].metadata.confidence_score = d.confidence_score
                  /\ composed[k].id = uuids - Len(composed) + k

C16_Witness ==
    /\ ipc = "composed_raw"
    /\ Len(batch) = 3
    /\ batch[1] = PlainIdea("none", <<"N", "o", "n", "e">>)
    /\ batch[2] = DictIdea(<<" ", "A">>, Absent, TRUE)
    /\ batch[3] = PlainIdea("int", <<"4", "2">>)
    /\ Len(composed) = 1
    /\ composed[1].title = <<" ", "A">>

\* what the metadata of a composed idea mirrors: the input's four fields,
\* with the empty text for an absent problem, proposal or business_value
\* and None for an absent confidence_score
MetadataMirrors(c, d) ==
    /\ c.metadata.problem = (IF d.problem = Absent THEN << >> ELSE d.problem)
    /\ c.metadata.proposal = (IF d.proposal = Absent THEN << >> ELSE d.proposal)
    /\ c.metadata.business_value = (IF d.business_value = Absent THEN << >> ELSE d.business_value)
    /\ c.metadata.confidence_score = d.confidence_score

\* C17 as stated: the composed title is the input's title when present,
\* otherwise the input's summary when present, otherwise "Untitled idea",
\* and the metadata mirrors the input's four fields.
C17_TitleAsStated ==
    ipc \in {"composed", "composed_raw"} =>
        \A k \in 1..Len(composed) :
            LET d == DictsOf(ComposeInput)[k]
            IN  /\ composed[k].title =
                      (IF d.title # Absent THEN d.title
                       ELSE IF d.summary # Absent THEN d.summary
                       ELSE Untitled)
                /\ MetadataMirrors(composed[k], d)

\* C17 amended: the composed title is the input's title when present and
\* not empty, otherwise the input's summary when present and not empty,
\* otherwise "Untitled idea", and the metadata mirrors the input's four
\* fields.
C17_TitleAmended ==
    ipc \in {"composed", "composed_raw"} =>
        \A k \in 1..Len(composed) :
            LET d == DictsOf(ComposeInput)[k]
            IN  /\ composed[k].title =
                      (IF d.title # Absent /\ d.title # << >> THEN d.title
                       ELSE IF d.summary # Absent /\ d.summary # << >> THEN d.summary
                       ELSE Untitled)
                /\ MetadataMirrors(composed[k], d)

C17_Witness ==
    /\ ipc = "composed_raw"
    /\ Len(batch) = 2
    /\ batch[1] = DictIdea(<< >>, <<"b">>, TRUE)
    /\ batch[2] = DictIdea(<<" ", "A">>, <<"b">>, FALSE)
    /\ Len(composed) = 2
    /\ composed[1].title = <<"b">>
    /\ composed[1].metadata.problem = <<"p">>
    /\ composed[2].title = <<" ", "A">>
    /\ composed[2].metadata.problem = << >>

\* ------------------------------------------------------------------------
\* Process start: `python orchestrator.py` runs the module-level imports
\* of orchestrator.py (line 22 imports retrievers.jira_retriever, whose
\* module body checks the environment) and then main().  env is the
\* environment as the .env file and the shell together supply it.
\* ------------------------------------------------------------------------

SettingValues == {"absent", "empty", "set"}

Environments == [KeySet -> SettingValues]

\* `not os.getenv(k)`: a variable that is unset or empty
NotSet(v) == v \in {"absent", "empty"}

\* [k for k in keys if not os.getenv(k)]
MissingOf(e) == SelectSeq(RequiredKeys, LAMBDA k : NotSet(e[k]))

\* the process is launched in environment e
Launch(e) ==
    /\ cpc = "off"
    /\ env' = e
    /\ cpc' = "importing"
    /\ UNCHANGED <<cmsg, cnet>>

\* jira_retriever.py 18-29, run by the import on orchestrator.py line 22
ImportJiraRetriever ==
    /\ cpc = "importing"
    /\ IF NotSet(env["JIRA_URL"]) \/ NotSet(env["JIRA_AUTH_TOKEN"])
       THEN /\ cpc' = "crashed"
            /\ cmsg' = [kind |-> "EnvironmentError", keys |-> <<"JIRA_URL", "JIRA_AUTH_TOKEN">>]
       ELSE /\ cpc' = "main"
            /\ UNCHANGED cmsg
    /\ UNCHANGED <<env, cnet>>

\* main() up to require_env
RequireEnv ==
    /\ cpc = "main"
    /\ IF MissingOf(env) # << >>
       THEN /\ cpc' = "exited"
            /\ cmsg' = [kind |-> "Missing required environment variables", keys |-> MissingOf(env)]
       ELSE /\ cpc' = "configured"
            /\ UNCHANGED cmsg
    /\ UNCHANGED <<env, cnet>>

\* main() from line 125: the orchestrator is built and run_agent fetches
RunAgent ==
    /\ cpc = "configured"
    /\ cpc' = "running"
    /\ cnet' = cnet + 1
    /\ UNCHANGED <<env, cmsg>>

ConfigFrame ==
    UNCHANGED <<agentVars, toolVars, ideaVars, checkerVars, reasoningVars, crawlVars, restVars>>

ConfigNext ==
    \/ cpc = "off" /\ \E e \in Environments : Launch(e) /\ ConfigFrame
    \/ ImportJiraRetriever /\ ConfigFrame
    \/ RequireEnv /\ ConfigFrame
    \/ RunAgent /\ ConfigFrame

SpecConfig == Init /\ [][ConfigNext]_vars

\* ------------------------------------------------------------------------
\* Claim C18
\* ------------------------------------------------------------------------

\* the required settings that are missing from the environment
MissingKeys == {k \in KeySet : env[k] \in {"absent", "empty"}}

Listed == {cmsg.keys[i] : i \in 1..Len(cmsg.keys)}

\* C18: when a required setting is missing at process start, the process
\* stops before any network call with one message that lists every missing
\* key.
C18_MissingKeysListed ==
    (cpc \notin {"off", "importing", "main"} /\ MissingKeys # {}) =>
        /\ cpc \in {"crashed", "exited"}
        /\ cnet = 0
        /\ MissingKeys \subseteq Listed

\* what holds of the process start: no network call is made with a setting
\* missing, and past the import the message of require_env lists exactly
\* the missing keys
StopsBeforeNetwork ==
    (cpc \notin {"off", "importing", "main"} /\ MissingKeys # {}) =>
        /\ cpc \in {"crashed", "exited"}
        /\ cnet = 0
        /\ (cpc = "exited" => Listed = MissingKeys)

\* ------------------------------------------------------------------------
\* Idea generation: generate_new_ideas of llm_modules/reasoning.py under
\* its retry decorator
\* ------------------------------------------------------------------------

ReasoningAttempts == 4

MaxIdeas == 2

\* what an element of the decoded array can be: an object with all five
\* keys, an object lacking one, a number, a string, null
ItemKinds == {"complete", "partial", "number", "string", "null"}

ItemLists == ListsUpTo(ItemKinds, MaxIdeas)

\* message.content of the response: None, "", text that is not JSON, or
\* JSON text of a null, a number, a string, one object, or an array
Contents ==
    {[kind |-> k, items |-> << >>] :
        k \in {"missing", "empty", "not_json", "null", "number", "string"}}
    \cup {[kind |-> "object", items |-> <<i>>] : i \in {"complete", "partial"}}
    \cup {[kind |-> "array", items |-> l] : l \in ItemLists}

\* the keys line 112-114 asks for
FiveKeys == {"title", "problem", "proposal", "business_value", "confidence_score"}

\* the keys of an object item; a partial object lacks confidence_score
KeysOf(item) ==
    CASE item = "complete" -> FiveKeys
      [] item = "partial" -> FiveKeys \ {"confidence_score"}
      [] OTHER -> {}

\* the loop of lines 111-115: `k in idea` raises TypeError for a number or
\* null, is a substring test for a string and a key test for an object
RECURSIVE ValidateIdeas(_, _)
ValidateIdeas(items, valid) ==
    IF items = << >> THEN [exc |-> "none", ideas |-> valid]
    ELSE IF Head(items) \in {"number", "null"} THEN [exc |-> "TypeError", ideas |-> << >>]
    ELSE IF \A k \in FiveKeys : k \in KeysOf(Head(items))
    THEN ValidateIdeas(Tail(items), Append(valid, Head(items)))
    ELSE ValidateIdeas(Tail(items), valid)

\* the body of the try block, lines 106-116, on `content or ""`
ParseIdeas(c) ==
    IF c.kind \in {"missing", "empty", "not_json"} THEN [exc |-> "JSONDecodeError", ideas |-> << >>]
    ELSE IF c.kind \in {"null", "number"} THEN [exc |-> "TypeError", ideas |-> << >>]
    ELSE IF c.kind = "string" THEN [exc |-> "none", ideas |-> << >>]
    ELSE ValidateIdeas(c.items, << >>)

CaughtNothing(e) == e \in {}

\* except json.JSONDecodeError (line 117)
Caught(e) == e = "JSONDecodeError"

\* analyze() calls generate_new_ideas: first attempt of the decorator
GenerateNewIdeas ==
    /\ rpc = "idle"
    /\ rpc' = "calling"
    /\ rattempt' = 1
    /\ UNCHANGED <<rcalls, rlast, rresult, rexc>>

\* client.chat.completions.create raises: nothing in the function catches it
ReasoningRemoteRaises(e) ==
    /\ rpc = "calling"
    /\ rcalls' = rcalls + 1
    /\ rlast' = [kind |-> "raised", items |-> << >>]
    /\ rexc' = e
    /\ rpc' = "failed"
    /\ UNCHANGED <<rattempt, rresult>>

\* the remote call returns content c; lines 103-119
ReasoningRemoteReturns(c) ==
    /\ rpc = "calling"
    /\ rcalls' = rcalls + 1
    /\ rlast' = c
    /\ LET out == ParseIdeas(c)
       IN  IF out.exc = "none"
           THEN rpc' = "returned" /\ rresult' = out.ideas /\ rexc' = "none"
           ELSE IF Caught(out.exc)
           THEN rpc' = "returned" /\ rresult' = << >> /\ rexc' = "none"
           ELSE rpc' = "failed" /\ rresult' = rresult /\ rexc' = out.exc
    /\ UNCHANGED rattempt

\* the decorator of line 42 after a failed attempt: call again
ReasoningRetry ==
    /\ rpc = "failed"
    /\ rattempt < ReasoningAttempts
    /\ rattempt' = rattempt + 1
    /\ rpc' = "calling"
    /\ rlast' = NoContent
    /\ rexc' = "none"
    /\ UNCHANGED <<rcalls, rresult>>

\* the decorator after the last attempt failed: RetryError to the caller
ReasoningGiveUp ==
    /\ rpc = "failed"
    /\ rattempt >= ReasoningAttempts
    /\ rpc' = "raised"
    /\ rexc' = "RetryError"
    /\ UNCHANGED <<rattempt, rcalls, rlast, rresult>>

ReasoningFrame ==
    UNCHANGED <<agentVars, toolVars, ideaVars, checkerVars, configVars, crawlVars, restVars>>

ReasoningNext ==
    \/ GenerateNewIdeas /\ ReasoningFrame
    \/ \E e \in RemoteErrors : ReasoningRemoteRaises(e) /\ ReasoningFrame
    \/ \E c \in Contents : ReasoningRemoteReturns(c) /\ ReasoningFrame
    \/ ReasoningRetry /\ ReasoningFrame
    \/ ReasoningGiveUp /\ ReasoningFrame

SpecReasoning == Init /\ [][ReasoningNext]_vars

\* ------------------------------------------------------------------------
\* Claim C19
\* ------------------------------------------------------------------------

\* the output of the model is not JSON text
Unparseable(c) == c.kind \in {"missing", "empty", "not_json"}

\* C19: when the output of the model cannot be parsed as JSON,
\* generate_new_ideas returns the empty list: no error is raised and no
\* further remote call is made.
C19_UnparseableGivesEmpty ==
    /\ [](Unparseable(rlast) => (rpc = "returned" /\ rresult = << >> /\ rexc = "none"))
    /\ [][Unparseable(rlast) => (rcalls' = rcalls /\ rpc' = "returned")]_vars

C19_Witness ==
    /\ rpc = "returned"
    /\ rlast.kind = "not_json"
    /\ rattempt = 2
    /\ rcalls = 2
    /\ rresult = << >>

\* ------------------------------------------------------------------------
\* The roadmap crawl: retrieve_roadmap_documents of
\* retrievers/roadmap_retriever.py.  What a page links to, and whether its
\* fetch fails, is decided by the site when the page is fetched.
\* ------------------------------------------------------------------------

MaxLinks == 2

\* base_url.rstrip("/")
Root == "root"

\* the absolute urls links resolve to: the root, three pages under it, a page
\* of another host, a page of the same host outside the root
Urls == {Root, "root/a", "root/b", "root/c", "other_host/x", "same_host/elsewhere"}

\* parsed.netloc != base_netloc (line 67)
SameNetloc(u) == u # "other_host/x"

StartsWithAnything(u) == u \in Urls

\* absolute.startswith(base_url.rstrip("/")) (line 69)
StartsWithBase(u) == u \in {Root, "root/a", "root/b", "root/c"}

LinkLists == ListsUpTo(Urls, MaxLinks)

\* queue.pop(): the list without its last item
Popped(q) == SubSeq(q, 1, Len(q) - 1)

\* the loop of lines 63-72 over the links of a page; v is `visited`
RECURSIVE Enqueue(_, _, _)
Enqueue(q, links, v) ==
    IF links = << >> THEN q
    ELSE IF ~SameNetloc(Head(links)) THEN Enqueue(q, Tail(links), v)
    ELSE IF ~StartsWithBase(Head(links)) THEN Enqueue(q, Tail(links), v)
    ELSE IF Head(links) \notin v THEN Enqueue(Append(q, Head(links)), Tail(links), v)
    ELSE Enqueue(q, Tail(links), v)

\* lines 38-40: the call starts with the root queued
CrawlStart ==
    /\ kpc = "idle"
    /\ kpc' = "loop"
    /\ visited' = {}
    /\ documents' = << >>
    /\ queue' = <<Root>>
    /\ UNCHANGED <<kfailed, kfetches, klinked>>

\* lines 46-48: the url popped was visited already
CrawlSkipVisited ==
    /\ kpc = "loop"
    /\ queue # << >>
    /\ queue[Len(queue)] \in visited
    /\ queue' = Popped(queue)
    /\ UNCHANGED <<kpc, visited, documents, kfailed, kfetches, klinked>>

\* lines 46-55: requests.get or raise_for_status raises RequestException
CrawlFetchFails ==
    /\ kpc = "loop"
    /\ queue # << >>
    /\ queue[Len(queue)] \notin visited
    /\ visited' = visited \cup {queue[Len(queue)]}
    /\ kfailed' = kfailed \cup {queue[Len(queue)]}
    /\ queue' = Popped(queue)
    /\ kfetches' = Append(kfetches, queue[Len(queue)])
    /\ UNCHANGED <<kpc, documents, klinked>>

\* lines 46-72: the page is fetched, recorded, and its links are queued
CrawlFetchOk(links) ==
    /\ kpc = "loop"
    /\ queue # << >>
    /\ queue[Len(queue)] \notin visited
    /\ visited' = visited \cup {queue[Len(queue)]}
    /\ documents' = Append(documents, queue[Len(queue)])
    /\ queue' = Enqueue(Popped(queue), links, visited')
    /\ kfetches' = Append(kfetches, queue[Len(queue)])
    /\ klinked' = klinked \cup {links[i] : i \in 1..Len(links)}
    /\ UNCHANGED <<kpc, kfailed>>

\* line 74: the queue is empty
CrawlReturn ==
    /\ kpc = "loop"
    /\ queue = << >>
    /\ kpc' = "returned"
    /\ UNCHANGED <<visited, documents, queue, kfailed, kfetches, klinked>>

CrawlFrame ==
    UNCHANGED <<agentVars, toolVars, ideaVars, checkerVars, configVars, reasoningVars, restVars>>

CrawlNext ==
    \/ CrawlStart /\ CrawlFrame
    \/ CrawlSkipVisited /\ CrawlFrame
    \/ CrawlFetchFails /\ CrawlFrame
    \/ kpc = "loop" /\ \E l \in LinkLists : CrawlFetchOk(l) /\ CrawlFrame
    \/ CrawlReturn /\ CrawlFrame

SpecCrawl == Init /\ [][CrawlNext]_vars

\* ------------------------------------------------------------------------
\* Claim C20
\* ------------------------------------------------------------------------

\* C20: a fetch failure of a page other than the root is swallowed and the
\* crawl goes on with the remaining pages, but a failure to fetch the root
\* reaches the caller as an error instead of an empty result.
C20_RootFailurePropagates ==
    /\ (Root \in kfailed => kpc = "raised")
    /\ (Root \notin kfailed => kpc # "raised")
    /\ ((kpc = "returned" /\ Root \notin kfailed) =>
            {documents[i] : i \in 1..Len(documents)} = visited \ kfailed)

\* what holds of the crawl: every failure, of the root too, is swallowed;
\* the call returns the pages fetched, none when the root failed
EveryFailureSwallowed ==
    /\ kpc # "raised"
    /\ {documents[i] : i \in 1..Len(documents)} = visited \ kfailed
    /\ ((kpc = "returned" /\ Root \in kfailed) => documents = << >>)

\* ------------------------------------------------------------------------
\* The Jira retriever: retrievers/jira_retriever.py.  A setting or an
\* argument is absent (None), empty, or has a value; the server reports one
\* total for the whole of a call and serves issue i of its T issues on the
\* page that covers position i.
\* ------------------------------------------------------------------------

JiraAttempts == 3

MaxPageSize == 2

MaxTotal == 4

\* the environment the module is imported in
JiraEnvs ==
    [JIRA_URL : {"absent", "empty", "set"}, JIRA_AUTH_TOKEN : {"absent", "empty", "set"},
     JIRA_PROJECT_KEY : {"absent", "set"}, JIRA_JQL : {"absent", "set"}]

\* the arguments get_roadmap_ideas can be called with
JiraArgs ==
    [fn : {"get_roadmap_ideas"}, jira_url : {"absent", "value"}, auth_token : {"absent", "value"},
     project_key : {"absent", "empty", "value"}, jql : {"absent", "empty", "value"}]

JiraErrors == {"HTTPError 500", "HTTPError 503"}

\* Python's `not v`
Falsy(v) == v \in {"absent", "empty"}

\* Python's `a or b`
Or(a, b) == IF Falsy(a) THEN b ELSE a

FinalJqlProjectUnchecked(a, g) ==
    IF ~Falsy(a.jql) THEN "jql"
    ELSE IF ~Falsy(g.JIRA_JQL) THEN "JIRA_JQL"
    ELSE "project"

\* lines 155-163: where final_jql comes from, "none" for None
FinalJql(a, g) ==
    IF ~Falsy(a.jql) THEN "jql"
    ELSE IF ~Falsy(g.JIRA_JQL) THEN "JIRA_JQL"
    ELSE IF ~Falsy(Or(a.project_key, g.JIRA_PROJECT_KEY)) THEN "project"
    ELSE "none"

JiraDoneStrict(start, total) == start > total

\* `if start_at >= total: break` (line 123)
JiraDone(start, total) == start >= total

JiraRaisedWrapped(errs) == IF errs = << >> THEN "none" ELSE "RetryError"

\* reraise=True (line 38): the exception of the last attempt is raised
JiraRaised(errs) == IF errs = << >> THEN "none" ELSE errs[Len(errs)]

\* the issues of the page that starts at position start: start+1 .. start+m,
\* as far as the server has issues
IssuesOfPage(start, m, total) ==
    [i \in 1..(IF start >= total THEN 0 ELSE IF start + m <= total THEN m ELSE total - start)
        |-> start + i]

\* the module body, lines 18-29
JiraImport(e) ==
    /\ jpc = "unloaded"
    /\ jglobals' = e
    /\ IF Falsy(e.JIRA_URL) \/ Falsy(e.JIRA_AUTH_TOKEN)
       THEN jpc' = "import_failed" /\ jexc' = "EnvironmentError"
       ELSE jpc' = "ready" /\ jexc' = jexc
    /\ UNCHANGED <<jargs, jm, jstart, jtotal, jissues, jattempt, jerrs, jhttp>>

\* get_roadmap_ideas up to the call of _fetch_issues, lines 152-178
GetRoadmapIdeas(a, m) ==
    /\ jpc = "ready"
    /\ jargs' = a
    /\ jm' = m
    /\ IF Falsy(Or(a.jira_url, jglobals.JIRA_URL)) \/ Falsy(Or(a.auth_token, jglobals.JIRA_AUTH_TOKEN))
       THEN /\ jpc' = "raised"
            /\ jexc' = "ValueError: Missing JIRA_URL or JIRA_AUTH_TOKEN"
            /\ UNCHANGED jattempt
       ELSE IF FinalJql(a, jglobals) = "none"
       THEN /\ jpc' = "raised"
            /\ jexc' = "ValueError: JQL query could not be determined"
            /\ UNCHANGED jattempt
       ELSE /\ jpc' = "fetching"
            /\ jattempt' = 1
            /\ UNCHANGED jexc
    /\ UNCHANGED <<jglobals, jstart, jtotal, jissues, jerrs, jhttp>>

\* fetch_all_issues up to the call of _fetch_issues, lines 129-141; an
\* omitted project key defaults to JIRA_PROJECT_KEY
FetchAllIssues(pk, m) ==
    /\ jpc = "ready"
    /\ jargs' = [fn |-> "fetch_all_issues", jira_url |-> "absent", auth_token |-> "absent",
                 project_key |-> pk, jql |-> "absent"]
    /\ jm' = m
    /\ IF Falsy(IF pk = "omitted" THEN jglobals.JIRA_PROJECT_KEY ELSE pk)
       THEN /\ jpc' = "raised"
            /\ jexc' = "ValueError: Project key must be provided when JIRA_JQL is not used"
            /\ UNCHANGED jattempt
       ELSE /\ jpc' = "fetching"
            /\ jattempt' = 1
            /\ UNCHANGED jexc
    /\ UNCHANGED <<jglobals, jstart, jtotal, jissues, jerrs, jhttp>>

\* one attempt of _jira_get fails (lines 65-67); the decorator tries again
\* or, after the last attempt, raises; _fetch_issues logs and re-raises
\* (lines 103-105)
JiraHttpFails(err) ==
    /\ jpc = "fetching"
    /\ jhttp' = Append(jhttp, [startAt |-> jstart, ok |-> FALSE])
    /\ jerrs' = Append(jerrs, err)
    /\ IF jattempt >= JiraAttempts
       THEN /\ jpc' = "raised"
            /\ jexc' = JiraRaised(jerrs')
            /\ UNCHANGED jattempt
       ELSE /\ jattempt' = jattempt + 1
            /\ UNCHANGED <<jpc, jexc>>
    /\ UNCHANGED <<jglobals, jargs, jm, jstart, jtotal, jissues>>

\* one attempt of _jira_get succeeds and the loop of _fetch_issues handles
\* the page (lines 102-124); the server reports total T
JiraHttpOk(T) ==
    /\ jpc = "fetching"
    /\ jtotal \in {-1, T}
    /\ jtotal' = T
    /\ jhttp' = Append(jhttp, [startAt |-> jstart, ok |-> TRUE])
    /\ jissues' = jissues \o IssuesOfPage(jstart, jm, T)
    /\ jstart' = jstart + jm
    /\ jerrs' = << >>
    /\ IF JiraDone(jstart + jm, T)
       THEN jpc' = "returned" /\ jattempt' = jattempt
       ELSE jpc' = "fetching" /\ jattempt' = 1
    /\ UNCHANGED <<jglobals, jargs, jm, jexc>>

JiraFrame ==
    UNCHANGED <<agentVars, toolVars, ideaVars, checkerVars, configVars, reasoningVars, crawlVars,
                feedbackVars, exportVars, pipelineVars>>

JiraNext ==
    \/ jpc = "unloaded" /\ \E e \in JiraEnvs : JiraImport(e) /\ JiraFrame
    \/ jpc = "ready" /\ \E a \in JiraArgs, m \in 1..MaxPageSize : GetRoadmapIdeas(a, m) /\ JiraFrame
    \/ \E pk \in {"omitted", "absent", "empty", "value"}, m \in 1..MaxPageSize :
          FetchAllIssues(pk, m) /\ JiraFrame
    \/ \E err \in JiraErrors : JiraHttpFails(err) /\ JiraFrame
    \/ \E T \in 0..MaxTotal : JiraHttpOk(T) /\ JiraFrame

SpecJira == Init /\ [][JiraNext]_vars

MaxRequests == 5

\* the page sizes a caller can pass: max_results is an unchecked int, and
\* _tool_fetch_jira (agent_orchestrator.py 39-41) hands on whatever the
\* model's arguments hold
PageSizes == -1..MaxPageSize

\* the retriever called with any page size; a call whose page size is not
\* positive is followed for MaxRequests requests
JiraPagingNext ==
    \/ jpc = "unloaded" /\ \E e \in JiraEnvs : JiraImport(e) /\ JiraFrame
    \/ jpc = "ready" /\ \E a \in JiraArgs, m \in PageSizes : GetRoadmapIdeas(a, m) /\ JiraFrame
    \/ \E pk \in {"omitted", "absent", "empty", "value"}, m \in PageSizes :
          FetchAllIssues(pk, m) /\ JiraFrame
    \/ (jm >= 1 \/ Len(jhttp) < MaxRequests) /\ \E err \in JiraErrors : JiraHttpFails(err) /\ JiraFrame
    \/ (jm >= 1 \/ Len(jhttp) < MaxRequests) /\ \E T \in 0..MaxTotal : JiraHttpOk(T) /\ JiraFrame

SpecJiraPaging == Init /\ [][JiraPagingNext]_vars

\* ------------------------------------------------------------------------
\* Claims C21, C25, C28
\* ------------------------------------------------------------------------

\* neither the argument nor the setting supplies the value
Unsupplied(arg, setting) == arg \in {"absent", "empty"} /\ setting \in {"absent", "empty"}

\* the connection parameters of the call are incomplete, or no JQL can be
\* determined
JiraConfigIncomplete ==
    \/ Unsupplied(jargs.jira_url, jglobals.JIRA_URL)
    \/ Unsupplied(jargs.auth_token, jglobals.JIRA_AUTH_TOKEN)
    \/ /\ jargs.jql \in {"absent", "empty"}
       /\ jglobals.JIRA_JQL \in {"absent", "empty"}
       /\ Unsupplied(jargs.project_key, jglobals.JIRA_PROJECT_KEY)

\* C21: get_roadmap_ideas fails with a configuration error, without any
\* request, when the Jira URL or the auth token is absent or when no JQL
\* can be determined (no jql argument, no JIRA_JQL, no project key).
C21_ConfigErrorBeforeRequest ==
    (jargs.fn = "get_roadmap_ideas" /\ jpc \in {"fetching", "returned", "raised"}
        /\ JiraConfigIncomplete) =>
            /\ jpc = "raised"
            /\ jexc \in {"ValueError: Missing JIRA_URL or JIRA_AUTH_TOKEN",
                         "ValueError: JQL query could not be determined"}
            /\ jhttp = << >>

C21_Witness ==
    /\ jpc = "raised"
    /\ jargs.fn = "get_roadmap_ideas"
    /\ jargs.jira_url = "value"
    /\ jargs.jql = "empty"
    /\ jargs.project_key = "absent"
    /\ jglobals.JIRA_PROJECT_KEY = "absent"
    /\ jglobals.JIRA_JQL = "absent"
    /\ jexc = "ValueError: JQL query could not be determined"
    /\ jhttp = << >>

\* the startAt values of the requests that were answered, in order
AnsweredOffsets == [i \in 1..Len(SelectSeq(jhttp, LAMBDA r : r.ok)) |->
                       SelectSeq(jhttp, LAMBDA r : r.ok)[i].startAt]

\* C25: with page size m >= 1 and a server reporting total T,
\* _fetch_issues requests startAt = 0, m, 2m, ... in increasing order, each
\* offset answered exactly once (an offset is sent again only after a
\* failed attempt at it), stops after the first request with
\* startAt + m >= T (one request when T = 0), and returns the issues of
\* all pages concatenated in page order.
C25_Pagination ==
    (jpc \in {"fetching", "returned", "raised"} /\ jm >= 1) =>
        /\ \A i \in 1..Len(AnsweredOffsets) : AnsweredOffsets[i] = (i - 1) * jm
        /\ \A i \in 1..Len(jhttp) :
              /\ jhttp[i].startAt = jm * Cardinality({j \in 1..(i - 1) : jhttp[j].ok})
              /\ (i > 1 /\ jhttp[i].startAt = jhttp[i - 1].startAt) => ~jhttp[i - 1].ok
        /\ \A i \in 1..(Len(AnsweredOffsets) - 1) : AnsweredOffsets[i] + jm < jtotal
        /\ (jpc = "fetching" /\ AnsweredOffsets # << >>) =>
              AnsweredOffsets[Len(AnsweredOffsets)] + jm < jtotal
        /\ jpc = "returned" =>
              /\ AnsweredOffsets # << >>
              /\ AnsweredOffsets[Len(AnsweredOffsets)] + jm >= jtotal
              /\ (jtotal = 0 => Len(AnsweredOffsets) = 1)
              /\ jissues = [i \in 1..jtotal |-> i]
        /\ \A i \in 1..Len(jissues) : jissues[i] = i

C25_Witness ==
    /\ jpc = "returned"
    /\ jm = 2
    /\ jtotal = 4
    /\ AnsweredOffsets = <<0, 2>>
    /\ Len(jhttp) = 3
    /\ jissues = <<1, 2, 3, 4>>

\* the attempts made for the request at startAt = o
AttemptsAt(o) == {i \in 1..Len(jhttp) : jhttp[i].startAt = o}

\* C28: _jira_get makes at most 3 attempts per request, the first
\* successful attempt ends the request, and when every attempt fails the
\* error raised is the HTTP error of the last attempt itself, not an error
\* of the retry wrapper.
C28_ThreeAttemptsReraise ==
    /\ jattempt <= 3
    /\ \A i \in 1..Len(jhttp) :
          /\ Cardinality(AttemptsAt(jhttp[i].startAt)) <= 3
          /\ jhttp[i].ok => \A j \in (i + 1)..Len(jhttp) : jhttp[j].startAt # jhttp[i].startAt
    /\ (jpc = "raised" /\ jhttp # << >>) =>
          /\ Len(jerrs) = 3
          /\ Cardinality(AttemptsAt(jstart)) = 3
          /\ \A i \in AttemptsAt(jstart) : ~jhttp[i].ok
          /\ jexc = jerrs[3]
          /\ jexc \in {"HTTPError 500", "HTTPError 503"}
    /\ (jpc = "fetching" /\ Len(jerrs) < 3) => jexc = "none"

C28_Witness ==
    /\ jpc = "raised"
    /\ jerrs = <<"HTTPError 500", "HTTPError 500", "HTTPError 503">>
    /\ jexc = "HTTPError 503"
    /\ Len(jhttp) = 4
    /\ jhttp[1].ok

\* ------------------------------------------------------------------------
\* Feedback: collect_ratings of feedback/collector.py.  The user types a
\* text at each prompt, or the input ends.
\* ------------------------------------------------------------------------

MaxRated == 2

IdeaIds == {"id1", "id2"}

\* the texts typed at a prompt
InputTexts == {"abc", "", "3.5", "-1", "0", "1", " 3 ", "5", "6"}

\* int(text): surrounding whitespace is accepted, anything that is not an
\* optionally signed run of digits raises ValueError
ParseInt(text) ==
    CASE text = "-1" -> [ok |-> TRUE, value |-> -1]
      [] text = "0" -> [ok |-> TRUE, value |-> 0]
      [] text = "1" -> [ok |-> TRUE, value |-> 1]
      [] text = " 3 " -> [ok |-> TRUE, value |-> 3]
      [] text = "5" -> [ok |-> TRUE, value |-> 5]
      [] text = "6" -> [ok |-> TRUE, value |-> 6]
      [] OTHER -> [ok |-> FALSE, value |-> 0]

RatingOkFromZero(v) == 0 <= v /\ v <= 5

\* 1 <= value <= 5 (line 18)
RatingOk(v) == 1 <= v /\ v <= 5

\* collect_ratings(ideas) is called: ratings = []
CollectRatings(ids) ==
    /\ fpc = "idle"
    /\ fpc' = "prompting"
    /\ fideas' = ids
    /\ fidx' = 1
    /\ ratings' = << >>
    /\ UNCHANGED <<flast, ffile>>

\* one pass of the `while True` loop for the current idea (lines 15-22):
\* the text is converted and, when it is a number in range, recorded
RateInput(text) ==
    /\ fpc = "prompting"
    /\ fidx <= Len(fideas)
    /\ LET p == ParseInt(text)
       IN  IF p.ok /\ RatingOk(p.value)
           THEN /\ ratings' = Append(ratings, [id |-> fideas[fidx], rating |-> p.value])
                /\ fidx' = fidx + 1
                /\ flast' = [idx |-> fidx, text |-> text, recorded |-> TRUE]
           ELSE /\ UNCHANGED <<ratings, fidx>>
                /\ flast' = [idx |-> fidx, text |-> text, recorded |-> FALSE]
    /\ UNCHANGED <<fpc, fideas, ffile>>

\* input() raises EOFError, which nothing catches
RateEof ==
    /\ fpc = "prompting"
    /\ fidx <= Len(fideas)
    /\ fpc' = "raised"
    /\ UNCHANGED <<fideas, fidx, ratings, flast, ffile>>

\* every idea is rated: lines 24-26 write the file
WriteFeedback ==
    /\ fpc = "prompting"
    /\ fidx > Len(fideas)
    /\ ffile' = ratings
    /\ fpc' = "written"
    /\ UNCHANGED <<fideas, fidx, ratings, flast>>

FeedbackFrame ==
    UNCHANGED <<agentVars, toolVars, ideaVars, checkerVars, configVars, reasoningVars, crawlVars,
                jiraVars, exportVars, pipelineVars>>

FeedbackNext ==
    \/ \E ids \in ListsUpTo(IdeaIds, MaxRated) : CollectRatings(ids) /\ FeedbackFrame
    \/ \E t \in InputTexts : RateInput(t) /\ FeedbackFrame
    \/ RateEof /\ FeedbackFrame
    \/ WriteFeedback /\ FeedbackFrame

SpecFeedback == Init /\ [][FeedbackNext]_vars

\* ------------------------------------------------------------------------
\* Claim C22
\* ------------------------------------------------------------------------

\* the texts that denote an integer from 1 to 5
DenotesRating == {"1", " 3 ", "5"}

\* C22: collect_ratings records exactly one {id, rating} pair per input
\* idea, in input order; every recorded rating is an integer in 1..5; an
\* input that is not a number or is outside 1..5 is never recorded and is
\* followed by a prompt for the same idea.
C22_OneRatingPerIdea ==
    /\ [](fpc \in {"prompting", "written", "raised"} =>
            /\ Len(ratings) = fidx - 1
            /\ \A i \in 1..Len(ratings) :
                  ratings[i].id = fideas[i] /\ ratings[i].rating \in 1..5
            /\ (flast.text \notin DenotesRating => ~flast.recorded)
            /\ (fpc = "written" =>
                  /\ ffile = ratings
                  /\ Len(ffile) = Len(fideas)
                  /\ \A i \in 1..Len(ffile) : ffile[i].id = fideas[i]))
    /\ [][(flast' # flast /\ flast'.text \notin DenotesRating) =>
             (ratings' = ratings /\ fidx' = fidx /\ fpc' = "prompting" /\ ffile' = ffile)]_vars

C22_Witness ==
    /\ fpc = "written"
    /\ fideas = <<"id2", "id1">>
    /\ ffile = <<[id |-> "id2", rating |-> 3], [id |-> "id1", rating |-> 5]>>
    /\ flast.text = "5"

\* ------------------------------------------------------------------------
\* Export: IdeaExporter.export_markdown of output/export.py.  An item and
\* the file are sequences of characters; "- " is written as one unit.
\* ------------------------------------------------------------------------

MaxExported == 2

NL == "\n"

\* the items exported: one-line texts, the empty text, and a text of two
\* lines such as the markdown of a composed idea
ExportItems == {<<"a">>, <<"b">>, << >>, <<"a", NL, "b">>}

\* the characters the loop of lines 13-14 writes for a list of items
RECURSIVE RenderItems(_)
RenderItems(items) ==
    IF items = << >> THEN << >>
    ELSE <<"- ">> \o Head(items) \o <<NL>> \o RenderItems(Tail(items))

FileAfterAppend(old, items) == old \o RenderItems(items)

\* open(path, "w") truncates the file, then the items are written
FileAfterWrite(old, items) == RenderItems(items)

\* export_markdown(ideas, path)
ExportMarkdown(items) ==
    /\ xpc' = "exported"
    /\ xitems' = items
    /\ xprev' = xfile
    /\ xfile' = FileAfterWrite(xfile, items)

ExportFrame ==
    UNCHANGED <<agentVars, toolVars, ideaVars, checkerVars, configVars, reasoningVars, crawlVars,
                jiraVars, feedbackVars, pipelineVars>>

ExportNext ==
    \E items \in ListsUpTo(ExportItems, MaxExported) : ExportMarkdown(items) /\ ExportFrame

SpecExport == Init /\ [][ExportNext]_vars

\* ------------------------------------------------------------------------
\* Claim C23
\* ------------------------------------------------------------------------

\* the newline-terminated lines of a text; cur is the line being read
RECURSIVE LinesFrom(_, _)
LinesFrom(text, cur) ==
    IF text = << >> THEN << >>
    ELSE IF Head(text) = NL THEN <<cur>> \o LinesFrom(Tail(text), << >>)
    ELSE LinesFrom(Tail(text), Append(cur, Head(text)))

Lines(text) == LinesFrom(text, << >>)

RECURSIVE EntryStart(_, _)
EntryStart(items, i) ==
    IF i = 1 THEN 0 ELSE EntryStart(items, i - 1) + Len(items[i - 1]) + 2

\* the text is the entries "- " item newline of the items, one after the
\* other in input order, and nothing else
EntriesInOrder(text, items) ==
    /\ Len(text) = EntryStart(items, Len(items) + 1)
    /\ \A i \in 1..Len(items) :
          LET at == EntryStart(items, i)
          IN  /\ text[at + 1] = "- "
              /\ \A j \in 1..Len(items[i]) : text[at + 1 + j] = items[i][j]
              /\ text[at + 2 + Len(items[i])] = NL

MaxAnalyzed == 2

\* the steps of run_agent in the order of its statements
StepOrder ==
    <<"retrieve_roadmap", "retrieve_jira", "analyze", "dedup", "compose", "write_json",
      "export_markdown", "collect_ratings">>

DocSets == {"docs_a", "docs_b"}

IssueSets == {"issues_a", "issues_b"}

\* ideas the reasoning engine returns: two with the same title, one with
\* an empty title
AnalyzedIdeas ==
    {DictIdea(<<" ", "A">>, Absent, TRUE), DictIdea(<<" ", "A">>, <<"b">>, TRUE),
     DictIdea(<< >>, <<"b">>, TRUE)}

\* the steps whose callee can raise: the retrievers, the reasoning engine,
\* the file writes and the prompt
RaisingSteps ==
    {"retrieve_roadmap", "retrieve_jira", "analyze", "write_json", "export_markdown",
     "collect_ratings"}

\* the step run_agent takes next
NextStep == StepOrder[Len(ptrace) + 1]

AnalyzeArgsNoIssues(docs, issues) == [docs |-> docs, issues |-> "none"]

\* self.reasoning.analyze(roadmap_docs, jira_issues) (line 78)
AnalyzeArgs(docs, issues) == [docs |-> docs, issues |-> issues]

\* the loop of lines 81-85 over a whole list: the filtered list and the
\* seen-set after it
RECURSIVE DedupLoop(_, _, _)
DedupLoop(ideas, kept, s) ==
    IF ideas = << >> THEN [deduped |-> kept, seen |-> s]
    ELSE IF ~IsDuplicate(s, Head(ideas))
    THEN DedupLoop(Tail(ideas), Append(kept, Head(ideas)), Add(s, Head(ideas)))
    ELSE DedupLoop(Tail(ideas), kept, s)

\* run_agent() is called
PipelineStart ==
    /\ ppc = "idle"
    /\ ppc' = "running"
    /\ UNCHANGED <<ptrace, pdocs, pissues, panalyzed, pideas, pseen, pcomposed, pjson,
                   pmarkdown, prated, preturn>>

\* the callee of the next step raises: the exception leaves run_agent
StepRaises ==
    /\ ppc = "running"
    /\ NextStep \in RaisingSteps
    /\ ptrace' = Append(ptrace, NextStep)
    /\ ppc' = "raised"
    /\ UNCHANGED <<pdocs, pissues, panalyzed, pideas, pseen, pcomposed, pjson, pmarkdown,
                   prated, preturn>>

\* roadmap_docs = retrieve_roadmap_documents(self.roadmap_url) (line 64)
RetrieveRoadmap(d) ==
    /\ ppc = "running"
    /\ NextStep = "retrieve_roadmap"
    /\ ptrace' = Append(ptrace, NextStep)
    /\ pdocs' = d
    /\ UNCHANGED <<ppc, pissues, panalyzed, pideas, pseen, pcomposed, pjson, pmarkdown,
                   prated, preturn>>

\* jira_issues = get_roadmap_ideas(...) (lines 68-74)
RetrieveJira(i) ==
    /\ ppc = "running"
    /\ NextStep = "retrieve_jira"
    /\ ptrace' = Append(ptrace, NextStep)
    /\ pissues' = i
    /\ UNCHANGED <<ppc, pdocs, panalyzed, pideas, pseen, pcomposed, pjson, pmarkdown,
                   prated, preturn>>

\* ideas = self.reasoning.analyze(roadmap_docs, jira_issues) returns b
AnalyzeStep(b) ==
    /\ ppc = "running"
    /\ NextStep = "analyze"
    /\ ptrace' = Append(ptrace, NextStep)
    /\ panalyzed' = AnalyzeArgs(pdocs, pissues)
    /\ pideas' = b
    /\ UNCHANGED <<ppc, pdocs, pissues, pseen, pcomposed, pjson, pmarkdown, prated, preturn>>

\* lines 81-86
DedupStep ==
    /\ ppc = "running"
    /\ NextStep = "dedup"
    /\ ptrace' = Append(ptrace, NextStep)
    /\ pideas' = DedupLoop(pideas, << >>, pseen).deduped
    /\ pseen' = DedupLoop(pideas, << >>, pseen).seen
    /\ UNCHANGED <<ppc, pdocs, pissues, panalyzed, pcomposed, pjson, pmarkdown, prated, preturn>>

\* composed = self.composer.compose(ideas) (line 88)
ComposeStep ==
    /\ ppc = "running"
    /\ NextStep = "compose"
    /\ ptrace' = Append(ptrace, NextStep)
    /\ pcomposed' = Compose(pideas, 0)
    /\ UNCHANGED <<ppc, pdocs, pissues, panalyzed, pideas, pseen, pjson, pmarkdown, prated,
                   preturn>>

\* json.dump(composed, f) into output/ideas.json (lines 97-99)
WriteJson ==
    /\ ppc = "running"
    /\ NextStep = "write_json"
    /\ ptrace' = Append(ptrace, NextStep)
    /\ pjson' = pcomposed
    /\ UNCHANGED <<ppc, pdocs, pissues, panalyzed, pideas, pseen, pcomposed, pmarkdown,
                   prated, preturn>>

\* self.exporter.export_markdown(markdown_items, "output/ideas.md") (lines 102-103)
ExportStep ==
    /\ ppc = "running"
    /\ NextStep = "export_markdown"
    /\ ptrace' = Append(ptrace, NextStep)
    /\ pmarkdown' = FileAfterWrite(pmarkdown, [i \in 1..Len(pcomposed) |-> pcomposed[i].markdown])
    /\ UNCHANGED <<ppc, pdocs, pissues, panalyzed, pideas, pseen, pcomposed, pjson, prated,
                   preturn>>

\* collect_ratings(composed); return composed (lines 105-107)
CollectStep ==
    /\ ppc = "running"
    /\ NextStep = "collect_ratings"
    /\ ptrace' = Append(ptrace, NextStep)
    /\ prated' = pcomposed
    /\ preturn' = pcomposed
    /\ ppc' = "returned"
    /\ UNCHANGED <<pdocs, pissues, panalyzed, pideas, pseen, pcomposed, pjson, pmarkdown>>

PipelineFrame ==
    UNCHANGED <<agentVars, toolVars, ideaVars, checkerVars, configVars, reasoningVars, crawlVars,
                jiraVars, feedbackVars, exportVars>>

PipelineNext ==
    \/ PipelineStart /\ PipelineFrame
    \/ StepRaises /\ PipelineFrame
    \/ \E d \in DocSets : RetrieveRoadmap(d) /\ PipelineFrame
    \/ \E i \in IssueSets : RetrieveJira(i) /\ PipelineFrame
    \/ \E b \in ListsUpTo(AnalyzedIdeas, MaxAnalyzed) : AnalyzeStep(b) /\ PipelineFrame
    \/ DedupStep /\ PipelineFrame
    \/ ComposeStep /\ PipelineFrame
    \/ WriteJson /\ PipelineFrame
    \/ ExportStep /\ PipelineFrame
    \/ CollectStep /\ PipelineFrame

SpecPipeline == Init /\ [][PipelineNext]_vars

\* ------------------------------------------------------------------------
\* Claim C24
\* ------------------------------------------------------------------------

\* C24: in one run_agent call the steps happen in the order retrieve
\* roadmap documents, retrieve Jira issues, analyze with exactly the
\* retrieved documents and issues, dedup filter, compose, write ideas.json,
\* export markdown, collect ratings, each once; the list returned is the
\* composed list that was written.
C24_PipelineOrder ==
    /\ Len(ptrace) <= Len(StepOrder)
    /\ \A i \in 1..Len(ptrace) : ptrace[i] = StepOrder[i]
    /\ \A i, j \in 1..Len(ptrace) : i # j => ptrace[i] # ptrace[j]
    /\ (Len(ptrace) >= 3 /\ ~(ppc = "raised" /\ Len(ptrace) = 3)) =>
          panalyzed = [docs |-> pdocs, issues |-> pissues]
    /\ ppc = "returned" =>
          /\ ptrace = StepOrder
          /\ preturn = pcomposed
          /\ preturn = pjson
          /\ prated = pcomposed

C24_Witness ==
    /\ ppc = "returned"
    /\ pdocs = "docs_b"
    /\ pissues = "issues_a"
    /\ Len(pideas) = 1
    /\ Len(preturn) = 1
    /\ preturn[1].title = <<" ", "A">>
    /\ Cardinality(pseen) = 1

\* ------------------------------------------------------------------------
\* Claims C26, C30 (the agent loop, specification Spec)
\* ------------------------------------------------------------------------

\* C26: when the arguments of a requested tool call cannot be parsed, no
\* tool is invoked for that turn and the turn ends run() with the error:
\* the failure is not retried the way a transient remote error is.
C26_ParseErrorAborts ==
    /\ []((lastTurn.kind = "tool_call" /\ lastTurn.args = "not_json") =>
            (~lastTurn.ran /\ ~lastTurn.io /\ exc = "JSONDecodeError"))
    /\ [][(pc = "raised" /\ exc = "JSONDecodeError") =>
             (pc' = "done" /\ attempt' = attempt /\ remoteCalls' = remoteCalls)]_vars

\* what holds of a turn whose arguments cannot be parsed: no tool is
\* entered and the exception leaves run()
ParseErrorRunsNoTool ==
    (lastTurn.kind = "tool_call" /\ lastTurn.args = "not_json") =>
        (~lastTurn.ran /\ ~lastTurn.io /\ exc = "JSONDecodeError" /\ pc \in {"raised", "done"})

\* ------------------------------------------------------------------------
\* Claim C27 (idea generation, specification SpecReasoning)
\* ------------------------------------------------------------------------

\* the output of the model is JSON text
ParsesAsJson(c) == c.kind \in {"null", "number", "string", "object", "array"}

\* the parsed ideas that have all five keys, in their order
IdeasWithAllKeys(c) ==
    IF c.kind \in {"object", "array"}
    THEN SelectSeq(c.items, LAMBDA i : i = "complete")
    ELSE << >>

\* C27: when the output of the model parses as JSON, generate_new_ideas
\* returns, in their order, exactly the parsed ideas that have all five
\* keys, one object counting as a list of one; the others are dropped
\* without an error.
C27_KeepsCompleteIdeas ==
    ParsesAsJson(rlast) =>
        (rpc = "returned" /\ rresult = IdeasWithAllKeys(rlast) /\ rexc = "none")

\* what holds of idea generation: output that is one object, or an array
\* of objects and strings, is filtered as C27 says
ObjectsAreFiltered ==
    (rlast.kind \in {"object", "array"}
        /\ \A i \in 1..Len(rlast.items) : rlast.items[i] \in {"complete", "partial", "string"}) =>
            (rpc = "returned" /\ rresult = IdeasWithAllKeys(rlast) /\ rexc = "none")

\* ------------------------------------------------------------------------
\* Claim C29 (the roadmap crawl, specification SpecCrawl)
\* ------------------------------------------------------------------------

\* the urls of the base host that begin with the base url
UnderRoot == {"root", "root/a", "root/b", "root/c"}

\* C29: each url is fetched at most once, also when pages link to each
\* other in cycles; only the root and linked urls of the base host that
\* start with the base url are fetched; the result has at most one
\* document per url, the document of the root first.
C29_EachUrlOnce ==
    /\ \A i, j \in 1..Len(kfetches) : i # j => kfetches[i] # kfetches[j]
    /\ \A i \in 1..Len(kfetches) :
          /\ kfetches[i] \in UnderRoot
          /\ (kfetches[i] = "root" \/ kfetches[i] \in klinked)
          /\ (i = 1 => kfetches[i] = "root")
    /\ \A i, j \in 1..Len(documents) : i # j => documents[i] # documents[j]
    /\ \A i \in 1..Len(documents) : \E j \in 1..Len(kfetches) : kfetches[j] = documents[i]
    /\ (documents # << >> => documents[1] = "root")

C29_Witness ==
    /\ kpc = "returned"
    /\ {"root", "root/a", "root/b", "other_host/x"} \subseteq klinked
    /\ kfetches = <<"root", "root/b", "root/a">>
    /\ documents = <<"root", "root/a">>

\* ------------------------------------------------------------------------
\* Claim C30 (the agent loop, specification SpecTerminating)
\* ------------------------------------------------------------------------

\* C30: when every remote call and every tool call returns or fails, one
\* invocation of run ends, after at most 4 attempts, at most 20 remote
\* calls and at most 20 tool invocations.
C30_RunTerminates ==
    /\ [](attempt <= 4 /\ remoteCalls <= 20 /\ toolRuns <= 20)
    /\ ((pc # "idle") ~> (pc = "done"))

C30_Witness ==
    /\ pc = "done"
    /\ attempt = 4
    /\ remoteCalls = 20
    /\ toolRuns = 20

\* ------------------------------------------------------------------------
\* Claim C31 (the pagination loop, specification SpecJiraPaging)
\* ------------------------------------------------------------------------

\* a step in which a request is answered and the loop goes round again
PageAnsweredLoopGoesOn ==
    /\ jpc = "fetching"
    /\ jpc' = "fetching"
    /\ Len(jhttp') = Len(jhttp) + 1
    /\ jhttp'[Len(jhttp')].ok

\* C31: the pagination loop of _fetch_issues terminates after finitely many
\* requests for every integer page size, 0 and negative values included, and
\* every finite total the server reports.  The server reports one total T, so
\* the loop ends iff start_at reaches T: every answered page that leaves the
\* loop running must bring start_at closer to T.
C31_PagingTerminates ==
    [][PageAnsweredLoopGoesOn => jstart' > jstart]_vars

\* with a positive page size every answered page advances start_at, and the
\* loop has ended once the answered offsets cover the total
PositivePagesAdvance ==
    /\ [][(PageAnsweredLoopGoesOn /\ jm >= 1) => jstart' > jstart]_vars
    /\ []((jm >= 1 /\ jpc = "fetching") => jstart < jtotal \/ jtotal = -1)

\* page size 0 against a server with one issue: the request at startAt = 0
\* has been answered MaxRequests times and the loop is still running
StuckAtFirstPage ==
    /\ jpc = "fetching"
    /\ jm = 0
    /\ jtotal = 1
    /\ jstart = 0
    /\ Len(jhttp) = MaxRequests
    /\ \A i \in 1..Len(jhttp) : jhttp[i].ok /\ jhttp[i].startAt = 0

\* ------------------------------------------------------------------------
\* Claim C32 (filter and composer of run_agent, specification SpecIdeas)
\* ------------------------------------------------------------------------

\* what generate_new_ideas lets through (reasoning.py 110-115): dicts that
\* have the five keys; a value may be empty, and a title that reads Absent
\* is the JSON null
ReasoningCanReturn(b) ==
    \A i \in 1..Len(b) :
        /\ b[i].kind = "dict"
        /\ b[i].problem # Absent
        /\ b[i].proposal # Absent
        /\ b[i].business_value # Absent
        /\ b[i].confidence_score # Absent

\* a title trimmed and case-folded
Folded(t) == Lower(Strip(t))

ComposedTitlesDistinct ==
    \A i, j \in 1..Len(composed) :
        i # j => Folded(composed[i].title) # Folded(composed[j].title)

\* C32: after the dedup filter and the composer of run_agent no two
\* composed ideas have titles that are equal after trimming and
\* case-folding, for every batch the reasoning step can return, ideas with
\* an empty or absent title and summary included.
C32_ComposedTitlesUnique ==
    (ipc = "composed" /\ ReasoningCanReturn(batch)) => ComposedTitlesDistinct

\* when every idea of the batch has a title or a summary, the filter and the
\* composer read the same text and the composed titles are distinct
TitledIdeasComposeDistinct ==
    (/\ ipc = "composed"
     /\ \A i \in 1..Len(batch) :
           batch[i].kind = "dict" /\ (Truthy(batch[i].title) \/ Truthy(batch[i].summary)))
        => ComposedTitlesDistinct

\* two ideas without a usable title pass the filter and are both composed
\* as "Untitled idea"
TwoUntitledComposed ==
    /\ ipc = "composed"
    /\ batch = <<DictIdea(<< >>, Absent, TRUE), DictIdea(Absent, Absent, TRUE)>>
    /\ deduped = batch
    /\ Len(composed) = 2
    /\ composed[1].title = Untitled
    /\ composed[2].title = Untitled

\* ------------------------------------------------------------------------
\* Claim C33 (tool descriptions and tool functions, specification SpecTools)
\* ------------------------------------------------------------------------

\* mutant: the description of fetch_jira advertises no required parameter
BuildToolDescriptionsJqlOptional ==
    {[name |-> "fetch_roadmap", properties |-> {"roadmap_url"}, required |-> {"roadmap_url"}],
     [name |-> "fetch_jira", properties |-> {"jql", "max_results"}, required |-> {}],
     [name |-> "fetch_competitors", properties |-> {"product_name", "max_results"},
      required |-> {"product_name"}]}

\* AgentOrchestrator._build_tool_descriptions (lines 61-98): a literal, the
\* same on every call; of each entry the name, the parameter names and the
\* "required" list
BuildToolDescriptions ==
    {[name |-> "fetch_roadmap", properties |-> {"roadmap_url"}, required |-> {"roadmap_url"}],
     [name |-> "fetch_jira", properties |-> {"jql", "max_results"}, required |-> {"jql"}],
     [name |-> "fetch_competitors", properties |-> {"product_name", "max_results"},
      required |-> {"product_name"}]}

AdvertisedNames == {d.name : d \in BuildToolDescriptions}

\* the description advertised under name t
Advertised(t) == CHOOSE d \in BuildToolDescriptions : d.name = t

\* the tool function called turned the call down for a missing parameter
Rejected == tpc = "raised" /\ texc = "ValueError"

\* C33: the advertised tool names are the keys of TOOLS (every advertised
\* tool is dispatchable, every registered tool advertised), and for each
\* tool the advertised required parameters are exactly those whose absence
\* the tool function rejects: a call without a required parameter is
\* rejected, a call that gives every required parameter is not, whatever
\* else is absent.
C33_DescriptionsMatchTools ==
    /\ AdvertisedNames = RegisteredTools
    /\ \A d1, d2 \in BuildToolDescriptions : d1.name = d2.name => d1 = d2
    /\ \A t \in AdvertisedNames : Lookup(t) = "found"
    /\ tpc # "idle" =>
          /\ Advertised(tname).required \subseteq Advertised(tname).properties
          /\ (\E k \in Advertised(tname).required : tparams[k] = "absent") => Rejected
          /\ (\A k \in Advertised(tname).required : tparams[k] = "value") => ~Rejected

\* fetch_jira called with jql and without the optional max_results went on to
\* its collaborator, and would have been rejected without jql
C33_Witness ==
    /\ tname = "fetch_jira"
    /\ tparams.jql = "value"
    /\ tparams.max_results = "absent"
    /\ tparams.roadmap_url = "absent"
    /\ tpc = "returned"
    /\ tnet = 1

====
